---------------------------- MODULE Spec2Model ----------------------------
(***************************************************************************)
(* Verification model of raspi-agent.                                      *)
(*                                                                         *)
(* Part I  : device registration / enrollment (device service, device      *)
(*           repository, HTTP device handlers, CA signer port).            *)
(* Part II : server-side voice-assistant streaming pipeline (TTS producer, *)
(*           Assist forwarding goroutine, HandleAssist consumer).          *)
(* Part III: the temporary upload files of concurrent HandleAssist calls.  *)
(* Part IV : the on-device orchestrator (wake, record, save, upload, play) *)
(*           and the porcupine wake listener.                              *)
(*                                                                         *)
(* Each part has its own specification (SpecDevice and SpecLifecycle,      *)
(* SpecAssist, SpecUpload, SpecOnboard and SpecOnboardFair); the variables *)
(* of the other parts stay at their initial value.                         *)
(***************************************************************************)
EXTENDS Integers, Sequences, FiniteSets, TLC

(***************************************************************************)
(* Bounds                                                                  *)
(***************************************************************************)
MaxDevices == 1

(***************************************************************************)
(* Part I - value universes                                                *)
(***************************************************************************)
\* a nil pointer (*string) of the domain layer / NULL association of a row
Nil == "<nil>"

\* users present in the users table, and the user ids a request may carry
Users == {"u1", "u2"}
UserIds == Users \cup {"u3"}

\* outcomes of generatePassword(16): non-empty strings over passwordCharset
OTPs == {"o1", "o2"}
\* OTP values a request body may carry ("" = field missing in the JSON)
ReqOTPs == OTPs \cup {""}

Names == {"pi"}
CSRs == {"csr"}

\* device ids: rows get 1, 2, ... ; 0 is never assigned (a missing device)
ReqDeviceIds == 0..MaxDevices

DeviceEnrollmentStateEnrolled == "enrolled"
DeviceEnrollmentStateCreated == "created"
DeviceEnrollmentStateDisabled == "disabled"
DeviceEnrollmentStates ==
    {DeviceEnrollmentStateCreated, DeviceEnrollmentStateEnrolled,
     DeviceEnrollmentStateDisabled}

StatusOK == 200
StatusBadRequest == 400
StatusInternalServerError == 500

VARIABLES
    devices,          \* the devices table: id -> row (entity.Device)
    issued,           \* CA side: device id -> set of OTPs presented by the
                      \* enroll calls that obtained a signed certificate
    last,             \* the most recent operation: request, what the service
                      \* saw and did, and the HTTP response
    failedResponses   \* the HTTP responses observed so far for enroll calls
                      \* with a failed precondition

deviceVars == <<devices, issued, last, failedResponses>>

\* placeholder for "no row"
NoRow == [name |-> "", otp |-> "", status |-> "", user |-> Nil]
NoCert == [csr |-> "", cn |-> 0]

\* HTTP response: status and the fields of the JSON body ("" / 0 / NoCert
\* when the body is empty or the field is the zero value)
Response(status, deviceId, userId, name, otp, crt) ==
    [status |-> status, deviceId |-> deviceId, userId |-> userId,
     name |-> name, otp |-> otp, crt |-> crt]

EmptyResponse(status) == Response(status, 0, "", "", "", NoCert)

(***************************************************************************)
(* Persistence adapter (deviceRepo)                                        *)
(***************************************************************************)
toDeviceEntity(d) ==
    [name |-> d.Name,
     otp |-> IF d.OTP # Nil THEN d.OTP ELSE "",
     status |-> d.EnrollmentStatus,
     user |-> IF d.UserID # Nil THEN d.UserID ELSE Nil]

toDomainDevice(id, e) ==
    [ID |-> id,
     UserID |-> IF e.user # Nil THEN e.user ELSE Nil,
     OTP |-> e.otp,
     Name |-> e.name,
     EnrollmentStatus |-> e.status]

\* deviceRepo.Find: the row converted to the domain, or ErrDeviceNotFound
RepoFind(db, id) ==
    IF id \in DOMAIN db
    THEN [err |-> FALSE, device |-> toDomainDevice(id, db[id])]
    ELSE [err |-> TRUE, device |-> toDomainDevice(id, NoRow)]

\* deviceRepo.Save: insert under a fresh id (BeforeCreate), return the row
RepoSave(db, d) ==
    LET id == Cardinality(DOMAIN db) + 1
        e == toDeviceEntity(d)
    IN [db |-> [i \in DOMAIN db \cup {id} |-> IF i = id THEN e ELSE db[i]],
        saved |-> toDomainDevice(id, e)]

\* deviceRepo.Update: overwrite the row of d.ID
RepoUpdate(db, d) ==
    [db EXCEPT ![d.ID] = toDeviceEntity(d)]

\* userRepo.Find: UserNotFound unless the user is in the users table
UserFind(userId) == [err |-> userId \notin Users, id |-> userId]

(***************************************************************************)
(* CA signer port (EnrollmentHandler.Sign)                                 *)
(***************************************************************************)
Sign(req, caOk) ==
    [err |-> ~caOk,
     result |-> IF caOk THEN [csr |-> req.CSR, cn |-> req.DeviceID]
                ELSE NoCert]

(***************************************************************************)
(* Device service                                                          *)
(***************************************************************************)
NoRegistrationResult == [DeviceID |-> 0, UserID |-> "", Name |-> "", OTP |-> ""]

\* reg: domain.DeviceRegistration; otp: what generatePassword(16) returned;
\* fault: "none", "rand" (random source fails) or "save" (insert fails)
RegisterDevice(db, reg, otp, fault) ==
    LET user == UserFind(reg.UserID)
        device == [ID |-> Nil, UserID |-> reg.UserID, OTP |-> otp,
                   Name |-> "",
                   EnrollmentStatus |-> DeviceEnrollmentStateCreated]
        s == RepoSave(db, device)
    IN IF user.err
       THEN [err |-> TRUE, db |-> db, res |-> NoRegistrationResult]
       ELSE IF fault = "rand"
       THEN [err |-> TRUE, db |-> db, res |-> NoRegistrationResult]
       ELSE IF fault = "save"
       THEN [err |-> TRUE, db |-> db, res |-> NoRegistrationResult]
       ELSE [err |-> FALSE, db |-> s.db,
             res |-> [DeviceID |-> s.saved.ID, UserID |-> user.id,
                      Name |-> s.saved.Name, OTP |-> ""]]

EnrollFailed == [err |-> TRUE, signCalled |-> FALSE, CertSign |-> NoCert]

\* EnrollDevice's guards with the ownership checks left out
EnrollRejected_NoOwnerCheck(f, enr) ==
    \/ f.err
    \/ f.device.OTP = Nil
    \/ enr.OTP = f.device.OTP

\* the guards of EnrollDevice that precede the call of the CA signer
EnrollRejected(f, enr) ==
    \/ f.err
    \/ f.device.UserID = Nil
    \/ f.device.UserID # enr.UserID
    \/ f.device.OTP = Nil
    \/ enr.OTP = f.device.OTP

\* enr: domain.DeviceEnrollment; caOk: whether the CA signs the request
EnrollDevice(db, enr, caOk) ==
    LET f == RepoFind(db, enr.DeviceID)
        s == Sign([CSR |-> enr.CSR, DeviceID |-> enr.DeviceID], caOk)
    IN IF EnrollRejected(f, enr)
       THEN EnrollFailed
       ELSE IF s.err
       THEN [err |-> TRUE, signCalled |-> TRUE, CertSign |-> NoCert]
       ELSE [err |-> FALSE, signCalled |-> TRUE, CertSign |-> s.result]

(***************************************************************************)
(* HTTP device handlers                                                    *)
(***************************************************************************)
\* record of one operation.  found/pre/rows/reuse describe the tables as the
\* operation found them: whether the device row existed, the row, the number
\* of rows, and whether a certificate had already been issued to this device
\* on this OTP
Call(op, userId, deviceId, name, otp, csr, parsable, caOk, db, iss, signed, resp) ==
    [op |-> op, userId |-> userId, deviceId |-> deviceId, name |-> name,
     otp |-> otp, csr |-> csr, parsable |-> parsable, caOk |-> caOk,
     found |-> deviceId \in DOMAIN db,
     pre |-> IF deviceId \in DOMAIN db THEN db[deviceId] ELSE NoRow,
     rows |-> Cardinality(DOMAIN db),
     reuse |-> otp \in iss[deviceId],
     signed |-> signed, resp |-> resp]

\* the enroll preconditions of the enrollment protocol that a caller can
\* miss: the device exists, belongs to the user, and the OTP is the stored one
PreconditionFailed(db, userId, deviceId, otp) ==
    \/ deviceId \notin DOMAIN db
    \/ db[deviceId].user # userId
    \/ db[deviceId].otp # otp

\* POST /v1/users/{userId}/devices
HandlePostRegisterDevice(userId, parsable, name, otp, fault) ==
    /\ Cardinality(DOMAIN devices) < MaxDevices
    /\ LET r == RegisterDevice(devices, [UserID |-> userId, Name |-> name],
                               otp, fault)
           resp == IF ~parsable THEN EmptyResponse(StatusBadRequest)
                   ELSE IF r.err
                   THEN EmptyResponse(StatusInternalServerError)
                   ELSE Response(StatusOK, r.res.DeviceID, userId,
                                 r.res.Name, r.res.OTP, NoCert)
       IN /\ devices' = IF parsable THEN r.db ELSE devices
          /\ last' = Call("register", userId, 0,
                          IF parsable THEN name ELSE "", "", "",
                          parsable, TRUE, devices, issued, FALSE, resp)
          /\ UNCHANGED <<issued, failedResponses>>

\* POST /v1/users/{userId}/devices/{deviceId}/enroll
\* (body: the decoded JSON body; meaningful only when parsable)
HandlePostEnrollDevice(userId, deviceId, parsable, body, caOk) ==
    LET r == EnrollDevice(devices,
                          [UserID |-> userId, DeviceID |-> deviceId,
                           CSR |-> body.csr, OTP |-> body.otp], caOk)
        resp == IF ~parsable THEN EmptyResponse(StatusBadRequest)
                ELSE IF r.err THEN EmptyResponse(StatusInternalServerError)
                ELSE Response(StatusOK, 0, "", "", "", r.CertSign)
    IN /\ last' = Call("enroll", userId, deviceId, "", body.otp, body.csr,
                       parsable, caOk, devices, issued,
                       parsable /\ r.signCalled, resp)
       /\ UNCHANGED devices

\* what the CA and a caller of the enroll endpoint have seen after the
\* enroll call recorded in last'
Observe ==
    /\ issued' = IF last'.resp.status = StatusOK
                 THEN [issued EXCEPT ![last'.deviceId] = @ \cup {last'.otp}]
                 ELSE issued
    /\ failedResponses' =
           IF /\ last'.parsable
              /\ PreconditionFailed(devices, last'.userId, last'.deviceId,
                                    last'.otp)
           THEN failedResponses \cup {last'.resp}
           ELSE failedResponses

\* deviceRepo.Update applied to an existing row (the repository operation by
\* which a row's OTP, owner and enrollment status are rewritten)
Update(id, userId, otp, enrollmentStatus) ==
    /\ id \in DOMAIN devices
    /\ LET d == [ID |-> id, UserID |-> userId, OTP |-> otp,
                 Name |-> devices[id].name,
                 EnrollmentStatus |-> enrollmentStatus]
       IN /\ devices' = RepoUpdate(devices, d)
          /\ devices' # devices
    /\ last' = Call("update", "", id, "", "", "", TRUE, TRUE, devices, issued,
                    FALSE, EmptyResponse(0))
    /\ UNCHANGED <<issued, failedResponses>>

(***************************************************************************)
(* Part II - the server-side voice-assistant pipeline of one request       *)
(*                                                                         *)
(* Three tasks: the handler (HandleAssist), the forwarding goroutine       *)
(* started by Assist, and the producer goroutine started by                *)
(* ProduceSpeechAudio.  speechCh and resCh are unbuffered: a send and its  *)
(* receive are one joint step.  A chunk is identified by the position of   *)
(* the read that returned it.                                              *)
(***************************************************************************)
MaxChunks == 3

VARIABLES
    hPc,            \* handler: "start", "select", "write", "flush", "done"
    hExit,          \* how the handler returned ("" while running)
    hMsg,           \* the chunk the handler is writing (0: none)
    status,         \* status code written by the handler (0: none yet)
    headersSet,     \* the streaming headers have been set
    invoked,        \* the pipeline stages called by Assist, in call order
    assistErr,      \* Assist returned (nil, err)
    failedStage,    \* the stage whose error Assist returned ("" if none)
    reqCancelled,   \* the request context (r.Context()) is done
    emittedAtCancel, \* Len(emitted) when the request context was cancelled
    cancelCalled,   \* the handler's deferred cancel() has run
    ttsPc,          \* producer: "idle", "read", "send", "done"
    ttsBuf,         \* the chunk the producer is sending (0: none)
    readLog,        \* the chunks returned by the reads of the upstream body
    emitted,        \* the chunks the producer has sent on speechCh
    speechClosed,   \* number of close(ch) executed on speechCh
    bodyClosed,     \* number of response.Body.Close() executed
    fwdPc,          \* forwarder: "idle", "select", "send", "done"
    fwdMsg,         \* the chunk the forwarder is sending (0: none)
    resClosed,      \* number of close(resCh) executed
    received,       \* the chunks the consumer has received from resCh
    bodyOut,        \* the chunks written to the HTTP response
    flushedLen      \* how many of them had been written at the last Flush

assistVars ==
    <<hPc, hExit, hMsg, status, headersSet, invoked, assistErr, failedStage,
      reqCancelled, emittedAtCancel, cancelCalled, ttsPc, ttsBuf, readLog,
      emitted, speechClosed, bodyClosed,
      fwdPc, fwdMsg, resClosed, received, bodyOut, flushedLen>>

handlerVars == <<hPc, hExit, hMsg, status, headersSet, invoked, assistErr,
                 failedStage, cancelCalled, bodyOut, flushedLen>>
ttsVars == <<ttsPc, ttsBuf, readLog, emitted, speechClosed, bodyClosed>>
fwdVars == <<fwdPc, fwdMsg, resClosed>>

\* ctx of HandleAssist: context.WithCancel(r.Context())
CtxDone == reqCancelled \/ cancelCalled

\* the points at which the request can fail before streaming starts
Failures == {"none", "form", "create", "copy", "transcribe", "complete",
             "speech", "flusher"}

\* Assist calls every stage whatever the earlier ones returned
StagesInvoked_All(fail) ==
    <<"transcribe", "complete", "speech">>
\* the stages Assist calls, in order, when the first failing one is fail
StagesInvoked(fail) ==
    IF fail = "transcribe" THEN <<"transcribe">>
    ELSE IF fail = "complete" THEN <<"transcribe", "complete">>
    ELSE <<"transcribe", "complete", "speech">>

AssistInit ==
    /\ hPc = "start"
    /\ hExit = ""
    /\ hMsg = 0
    /\ status = 0
    /\ headersSet = FALSE
    /\ invoked = <<>>
    /\ assistErr = FALSE
    /\ failedStage = ""
    /\ reqCancelled = FALSE
    /\ emittedAtCancel = 0
    /\ cancelCalled = FALSE
    /\ ttsPc = "idle"
    /\ ttsBuf = 0
    /\ readLog = <<>>
    /\ emitted = <<>>
    /\ speechClosed = 0
    /\ bodyClosed = 0
    /\ fwdPc = "idle"
    /\ fwdMsg = 0
    /\ resClosed = 0
    /\ received = <<>>
    /\ bodyOut = <<>>
    /\ flushedLen = 0

\* the handler returns: its deferred cancel() runs
HandlerReturn(how) ==
    /\ hPc' = "done"
    /\ hExit' = how
    /\ cancelCalled' = TRUE

\* HandleAssist from its entry to the streaming loop, Assist included
HandleAssistStart(fail) ==
    /\ hPc = "start"
    /\ IF fail = "form"
       THEN \* r.FormFile fails: 400, before ctx and cancel exist
            /\ hPc' = "done"
            /\ hExit' = "error"
            /\ status' = StatusBadRequest
            /\ UNCHANGED <<cancelCalled, headersSet, invoked, assistErr,
                           failedStage, ttsPc, fwdPc>>
       ELSE IF fail \in {"create", "copy"}
       THEN \* os.Create or io.Copy fails: 500, before ctx and cancel exist
            /\ hPc' = "done"
            /\ hExit' = "error"
            /\ status' = StatusInternalServerError
            /\ UNCHANGED <<cancelCalled, headersSet, invoked, assistErr,
                           failedStage, ttsPc, fwdPc>>
       ELSE IF fail \in {"transcribe", "complete", "speech"}
       THEN \* Assist returns (nil, err): 500
            /\ invoked' = StagesInvoked(fail)
            /\ assistErr' = TRUE
            /\ failedStage' = fail
            /\ status' = StatusInternalServerError
            /\ HandlerReturn("error")
            /\ UNCHANGED <<headersSet, ttsPc, fwdPc>>
       ELSE \* Assist returns resCh: both goroutines are running
            /\ invoked' = StagesInvoked(fail)
            /\ ttsPc' = "read"
            /\ fwdPc' = "select"
            /\ headersSet' = TRUE
            /\ UNCHANGED <<assistErr, failedStage>>
            /\ IF fail = "flusher"
               THEN /\ status' = StatusInternalServerError
                    /\ HandlerReturn("error")
               ELSE /\ hPc' = "select"
                    /\ UNCHANGED <<hExit, status, cancelCalled>>
    /\ UNCHANGED <<hMsg, reqCancelled, emittedAtCancel, ttsBuf, readLog,
                   emitted, speechClosed, bodyClosed, fwdMsg, resClosed,
                   received, bodyOut, flushedLen>>

\* the client goes away: the request context is cancelled
ClientCancel ==
    /\ hPc # "done"
    /\ ~reqCancelled
    /\ reqCancelled' = TRUE
    /\ emittedAtCancel' = Len(emitted)
    /\ UNCHANGED <<handlerVars, ttsVars, fwdVars, received>>

(***************************************************************************)
(* Producer goroutine of ProduceSpeechAudio                                *)
(***************************************************************************)
\* the deferred close(ch) and response.Body.Close()
TtsExit ==
    /\ ttsPc' = "done"
    /\ speechClosed' = speechClosed + 1
    /\ bodyClosed' = bodyClosed + 1

\* response.Body.Read returns n > 0 bytes (hasData) and err ("nil", "EOF" or
\* another error)
TtsRead(hasData, err) ==
    /\ ttsPc = "read"
    /\ hasData => Len(readLog) < MaxChunks
    /\ hasData \/ err # "nil"
    /\ readLog' = IF hasData THEN Append(readLog, Len(readLog) + 1)
                  ELSE readLog
    /\ IF err # "nil"
       THEN TtsExit /\ UNCHANGED ttsBuf
       ELSE /\ ttsPc' = "send"
            /\ ttsBuf' = Len(readLog) + 1
            /\ UNCHANGED <<speechClosed, bodyClosed>>
    /\ UNCHANGED <<emitted, handlerVars, fwdVars, reqCancelled,
                   emittedAtCancel, received>>

\* case <-ctx.Done() of the producer's send
TtsCancelled ==
    /\ ttsPc = "send"
    /\ CtxDone
    /\ TtsExit
    /\ UNCHANGED <<ttsBuf, readLog, emitted, handlerVars, fwdVars,
                   reqCancelled, emittedAtCancel, received>>

(***************************************************************************)
(* Forwarding goroutine of Assist                                          *)
(***************************************************************************)
\* the forwarder closes resCh but keeps looping
FwdExit_KeepRunning ==
    /\ fwdPc' = "select"
    /\ resClosed' = resClosed + 1
    /\ UNCHANGED fwdMsg
\* the deferred close(resCh)
FwdExit ==
    /\ fwdPc' = "done"
    /\ resClosed' = resClosed + 1
    /\ UNCHANGED fwdMsg

\* case <-ctx.Done()
FwdCancelled ==
    /\ fwdPc = "select"
    /\ CtxDone
    /\ FwdExit
    /\ UNCHANGED <<handlerVars, ttsVars, reqCancelled, emittedAtCancel,
                   received>>

\* the forwarder receives a chunk and discards it
SpeechChTransfer_Drop ==
    /\ ttsPc = "send"
    /\ fwdPc = "select"
    /\ emitted' = Append(emitted, ttsBuf)
    /\ ttsPc' = "read"
    /\ ttsBuf' = 0
    /\ UNCHANGED <<fwdPc, fwdMsg>>
    /\ UNCHANGED <<readLog, speechClosed, bodyClosed, resClosed, handlerVars,
                   reqCancelled, emittedAtCancel, received>>

\* case msg, ok := <-speechCh with ok: the producer's send and the
\* forwarder's receive
SpeechChTransfer ==
    /\ ttsPc = "send"
    /\ fwdPc = "select"
    /\ emitted' = Append(emitted, ttsBuf)
    /\ ttsPc' = "read"
    /\ ttsBuf' = 0
    /\ fwdPc' = "send"
    /\ fwdMsg' = ttsBuf
    /\ UNCHANGED <<readLog, speechClosed, bodyClosed, resClosed, handlerVars,
                   reqCancelled, emittedAtCancel, received>>

\* case msg, ok := <-speechCh with !ok
FwdSpeechClosed ==
    /\ fwdPc = "select"
    /\ speechClosed > 0
    /\ FwdExit
    /\ UNCHANGED <<handlerVars, ttsVars, reqCancelled, emittedAtCancel,
                   received>>

\* resCh <- &r and the handler's case res, ok := <-resCh with ok
ResChTransfer ==
    /\ fwdPc = "send"
    /\ hPc = "select"
    /\ received' = Append(received, fwdMsg)
    /\ fwdPc' = "select"
    /\ fwdMsg' = 0
    /\ hPc' = "write"
    /\ hMsg' = fwdMsg
    /\ UNCHANGED <<hExit, status, headersSet, invoked, assistErr, failedStage,
                   cancelCalled, bodyOut, flushedLen, resClosed, ttsVars,
                   reqCancelled, emittedAtCancel>>

(***************************************************************************)
(* Streaming loop of HandleAssist                                          *)
(***************************************************************************)
\* case <-ctx.Done()
HandlerCancelled ==
    /\ hPc = "select"
    /\ CtxDone
    /\ HandlerReturn("cancelled")
    /\ UNCHANGED <<hMsg, status, headersSet, invoked, assistErr, failedStage,
                   bodyOut, flushedLen, ttsVars, fwdVars, reqCancelled,
                   emittedAtCancel, received>>

\* case res, ok := <-resCh with !ok
HandlerStreamClosed ==
    /\ hPc = "select"
    /\ resClosed > 0
    /\ HandlerReturn("closed")
    /\ UNCHANGED <<hMsg, status, headersSet, invoked, assistErr, failedStage,
                   bodyOut, flushedLen, ttsVars, fwdVars, reqCancelled,
                   emittedAtCancel, received>>

\* the handler takes the next chunk without flushing the one it wrote
HandlerWrite_NoFlush(ok) ==
    /\ hPc = "write"
    /\ IF ok
       THEN /\ bodyOut' = Append(bodyOut, hMsg)
            /\ status' = IF status = 0 THEN StatusOK ELSE status
            /\ hPc' = "select"
            /\ UNCHANGED <<hExit, cancelCalled>>
       ELSE /\ HandlerReturn("writeError")
            /\ UNCHANGED <<bodyOut, status>>
    /\ UNCHANGED <<hMsg, headersSet, invoked, assistErr, failedStage,
                   flushedLen, ttsVars, fwdVars, reqCancelled,
                   emittedAtCancel, received>>
\* io.Copy(rw, res.Audio)
HandlerWrite(ok) ==
    /\ hPc = "write"
    /\ IF ok
       THEN /\ bodyOut' = Append(bodyOut, hMsg)
            /\ status' = IF status = 0 THEN StatusOK ELSE status
            /\ hPc' = "flush"
            /\ UNCHANGED <<hExit, cancelCalled>>
       ELSE /\ HandlerReturn("writeError")
            /\ UNCHANGED <<bodyOut, status>>
    /\ UNCHANGED <<hMsg, headersSet, invoked, assistErr, failedStage,
                   flushedLen, ttsVars, fwdVars, reqCancelled,
                   emittedAtCancel, received>>

\* flusher.Flush()
HandlerFlush ==
    /\ hPc = "flush"
    /\ flushedLen' = Len(bodyOut)
    /\ status' = IF status = 0 THEN StatusOK ELSE status
    /\ hPc' = "select"
    /\ hMsg' = 0
    /\ UNCHANGED <<hExit, headersSet, invoked, assistErr, failedStage,
                   cancelCalled, bodyOut, ttsVars, fwdVars, reqCancelled,
                   emittedAtCancel, received>>

(***************************************************************************)
(* Part III - the uploads of concurrent voice-assistance requests          *)
(*                                                                         *)
(* HandleAssist stores the uploaded audio in a file named after the        *)
(* current time, to the second, hands the open file to the pipeline and    *)
(* removes the path when it returns.  The file system is a directory (path *)
(* -> inode) and the inodes' contents; a request holds on to its inode     *)
(* through its open file.                                                  *)
(***************************************************************************)
MaxClock == 2

Requests == {"r1", "r2"}
Seconds == 0..MaxClock
NoPath == -1
NoInode == 0
Inodes == 1..2
\* what an inode holds: nothing (truncated) or the upload of one request
Empty == "<empty>"

VARIABLES
    clock,          \* time.Now(), in seconds
    rPc,            \* per request: "start", "created", "copied", "read", "done"
    rStatus,        \* per request: the status written before streaming (0: none)
    rPath,          \* per request: the second its filePath is made of
    rFile,          \* per request: the inode behind its open tmpFile
    rHeard,         \* per request: what the pipeline read from its tmpFile
    dir,            \* the directory: second of the path -> inode, or NoInode
    inode           \* inode -> Empty, or the request whose upload it holds

uploadVars == <<clock, rPc, rStatus, rPath, rFile, rHeard, dir, inode>>

UploadInit ==
    /\ clock = 0
    /\ rPc = [r \in Requests |-> "start"]
    /\ rStatus = [r \in Requests |-> 0]
    /\ rPath = [r \in Requests |-> NoPath]
    /\ rFile = [r \in Requests |-> NoInode]
    /\ rHeard = [r \in Requests |-> Empty]
    /\ dir = [s \in Seconds |-> NoInode]
    /\ inode = [i \in Inodes |-> Empty]

\* a second passes
Tick ==
    /\ clock < MaxClock
    /\ clock' = clock + 1
    /\ UNCHANGED <<rPc, rStatus, rPath, rFile, rHeard, dir, inode>>

\* an inode no path and no open file refers to
FreeInode ==
    CHOOSE i \in Inodes :
        /\ \A s \in Seconds : dir[s] # i
        /\ \A r \in Requests : rPc[r] \in {"created", "copied", "read"}
                                   => rFile[r] # i

\* os.Create(path): the inode of an existing path is truncated, a missing
\* path gets a new empty inode
OsCreate(path) ==
    LET i == IF dir[path] # NoInode THEN dir[path] ELSE FreeInode
    IN [ino |-> i,
        dir |-> [dir EXCEPT ![path] = i],
        inode |-> [inode EXCEPT ![i] = Empty]]

\* os.Remove(path)
OsRemove(path) == [dir EXCEPT ![path] = NoInode]

\* HandleAssist up to os.Create: FormFile, the path from time.Now() and the
\* creation of the file
HandleAssistCreate(r, fail) ==
    /\ rPc[r] = "start"
    /\ IF fail = "form"
       THEN /\ rPc' = [rPc EXCEPT ![r] = "done"]
            /\ rStatus' = [rStatus EXCEPT ![r] = StatusBadRequest]
            /\ UNCHANGED <<rPath, rFile, dir, inode>>
       ELSE IF fail = "create"
       THEN /\ rPc' = [rPc EXCEPT ![r] = "done"]
            /\ rStatus' = [rStatus EXCEPT ![r] = StatusInternalServerError]
            /\ rPath' = [rPath EXCEPT ![r] = clock]
            /\ UNCHANGED <<rFile, dir, inode>>
       ELSE LET c == OsCreate(clock)
            IN /\ rPc' = [rPc EXCEPT ![r] = "created"]
               /\ rPath' = [rPath EXCEPT ![r] = clock]
               /\ rFile' = [rFile EXCEPT ![r] = c.ino]
               /\ dir' = c.dir
               /\ inode' = c.inode
               /\ UNCHANGED rStatus
    /\ UNCHANGED <<clock, rHeard>>

\* the handler returns after os.Create succeeded: the deferred
\* os.Remove(filePath) and tmpFile.Close() run
HandleAssistReturn(r) ==
    /\ rPc' = [rPc EXCEPT ![r] = "done"]
    /\ dir' = OsRemove(rPath[r])

\* io.Copy(tmpFile, audioFile): the upload is written from offset 0 of the
\* request's open file
HandleAssistCopy(r, ok) ==
    /\ rPc[r] = "created"
    /\ IF ok
       THEN /\ inode' = [inode EXCEPT ![rFile[r]] = r]
            /\ rPc' = [rPc EXCEPT ![r] = "copied"]
            /\ UNCHANGED <<rStatus, dir>>
       ELSE /\ rStatus' = [rStatus EXCEPT ![r] = StatusInternalServerError]
            /\ HandleAssistReturn(r)
            /\ UNCHANGED inode
    /\ UNCHANGED <<clock, rPath, rFile, rHeard>>

\* tmpFile.Seek(0, io.SeekStart) and the pipeline reading req.Audio
HandleAssistRead(r) ==
    /\ rPc[r] = "copied"
    /\ rHeard' = [rHeard EXCEPT ![r] = inode[rFile[r]]]
    /\ rPc' = [rPc EXCEPT ![r] = "read"]
    /\ UNCHANGED <<clock, rStatus, rPath, rFile, dir, inode>>

\* the rest of HandleAssist, to its return
HandleAssistFinish(r) ==
    /\ rPc[r] = "read"
    /\ HandleAssistReturn(r)
    /\ UNCHANGED <<clock, rStatus, rPath, rFile, rHeard, inode>>

(***************************************************************************)
(* Part IV - the on-device orchestrator and the wake listener              *)
(*                                                                         *)
(* Run starts three goroutines connected by the unbuffered channels        *)
(* recordCh and fpCh and then waits for ctxWithCancel: the wake/record     *)
(* task (recordUponWake, which starts one Listen goroutine per iteration), *)
(* the task that writes each recording to a file, and the task that        *)
(* uploads the file and hands the reply to a player goroutine over         *)
(* streamCh.  A send and the matching receive are one joint step.          *)
(***************************************************************************)
MaxWakes == 2
MaxReplies == 2

VARIABLES
    ctxCancelled,   \* the ctx passed to Run is done
    cancelRun,      \* Run's cancel() has been called
    mPc,            \* Run itself: "wait", "returned"
    runResult,      \* what Run returned: "" (running) or "nil"
    recordChClosed, \* the deferred close(recordCh) has run
    fpChClosed,     \* the deferred close(fpCh) has run
    wPc,            \* recordUponWake: "loop", "waitWake", "record", "sendRec"
    wRec,           \* the recording recordUponWake is sending (0: none)
    wErr,           \* the error recordUponWake returned: "", "ctx", "listen"
                    \* or "record"
    lPc,            \* Listen goroutine: "idle", "init", "select", "frame",
                    \* "sendWake"
    lResult,        \* what Listen returned: "", "nil" or "err"
    sawDone,        \* Listen has taken its case <-ctx.Done()
    wakes,          \* number of wake words detected
    fPc,            \* file task: "select", "save", "sendPath", "done"
    fRec,           \* the recording the file task holds (0: none)
    recFiles,       \* the recording files that exist
    uPc,            \* upload task: "select", "open", "inner", "sendStream"
    uRec,           \* the recording the upload task is handling (0: none)
    uErr,           \* the error the upload task returned on: "", "open",
                    \* "assist" or "read"
    aLeft,          \* chunks the assistance channel still has to deliver
    uploaded,       \* the recordings Assist was called with
    pPc,            \* player goroutine: "idle", "init", "select", "done"
    played,         \* number of chunks the player received
    failed          \* some operation has returned an error

onboardVars ==
    <<ctxCancelled, cancelRun, mPc, runResult, recordChClosed, fpChClosed,
      wPc, wRec, wErr, lPc, lResult, sawDone, wakes, fPc, fRec, recFiles,
      uPc, uRec, uErr, aLeft,
      uploaded, pPc, played, failed>>

ctxVars == <<ctxCancelled, cancelRun>>
runVars == <<mPc, runResult, recordChClosed, fpChClosed>>
wakeVars == <<wPc, wRec, wErr>>
listenVars == <<lPc, lResult, sawDone, wakes>>
fileVars == <<fPc, fRec, recFiles>>
uploadTaskVars == <<uPc, uRec, uErr, aLeft, uploaded>>
playerVars == <<pPc, played>>

\* ctxWithCancel of Run: context.WithCancel(ctx)
CtxWithCancelDone == ctxCancelled \/ cancelRun

OnboardInit ==
    /\ ctxCancelled = FALSE
    /\ cancelRun = FALSE
    /\ mPc = "wait"
    /\ runResult = ""
    /\ recordChClosed = FALSE
    /\ fpChClosed = FALSE
    /\ wPc = "loop"
    /\ wRec = 0
    /\ wErr = ""
    /\ lPc = "idle"
    /\ lResult = ""
    /\ sawDone = FALSE
    /\ wakes = 0
    /\ fPc = "select"
    /\ fRec = 0
    /\ recFiles = {}
    /\ uPc = "select"
    /\ uRec = 0
    /\ uErr = ""
    /\ aLeft = 0
    /\ uploaded = {}
    /\ pPc = "idle"
    /\ played = 0
    /\ failed = FALSE

\* the caller of Run cancels ctx
CancelCtx ==
    /\ ~ctxCancelled
    /\ mPc # "crashed"
    /\ ctxCancelled' = TRUE
    /\ UNCHANGED <<cancelRun, runVars, wakeVars, listenVars, fileVars,
                   uploadTaskVars, playerVars, failed>>

\* <-ctxWithCancel.Done(); return nil, and the deferred close(fpCh) and
\* close(recordCh)
RunReturn ==
    /\ mPc = "wait"
    /\ CtxWithCancelDone
    /\ mPc' = "returned"
    /\ runResult' = "nil"
    /\ fpChClosed' = TRUE
    /\ recordChClosed' = TRUE
    /\ UNCHANGED <<ctxVars, wakeVars, listenVars, fileVars, uploadTaskVars,
                   playerVars, failed>>

\* a send on a channel Run has closed panics: the process ends
SendOnClosedChannel ==
    /\ \/ wPc = "sendRec" /\ recordChClosed
       \/ fPc = "sendPath" /\ fpChClosed
    /\ mPc' = "crashed"
    /\ wPc' = "crashed"
    /\ lPc' = "crashed"
    /\ fPc' = "crashed"
    /\ uPc' = "crashed"
    /\ pPc' = "crashed"
    /\ UNCHANGED <<ctxVars, runResult, recordChClosed, fpChClosed, wRec,
                   wErr, lResult, sawDone, wakes, fRec, recFiles, uRec, uErr,
                   aLeft, uploaded,
                   played, failed>>

(***************************************************************************)
(* recordUponWake and the goroutine of Run that calls it                   *)
(***************************************************************************)
\* recordUponWake returns an error: the goroutine calls cancel()
RecordUponWakeFails(err) ==
    /\ wPc' = "done"
    /\ wErr' = err
    /\ cancelRun' = TRUE

\* the select at the top of the loop: ctx.Done() if it is ready, else the
\* default branch, which starts a Listen goroutine and waits on wakeCh
RecordUponWakeLoop ==
    /\ wPc = "loop"
    /\ IF CtxWithCancelDone
       THEN /\ RecordUponWakeFails("ctx")
            /\ UNCHANGED lPc
       ELSE /\ wPc' = "waitWake"
            /\ lPc' = "init"
            /\ UNCHANGED <<cancelRun, wErr>>
    /\ UNCHANGED <<ctxCancelled, runVars, wRec, lResult, sawDone, wakes,
                   fileVars, uploadTaskVars, playerVars, failed>>

\* wakeCh <- err / wakeCh <- nil in the Listen goroutine and err := <-wakeCh
WakeChTransfer ==
    /\ lPc = "sendWake"
    /\ wPc = "waitWake"
    /\ lPc' = "idle"
    /\ lResult' = ""
    /\ IF lResult = "err"
       THEN RecordUponWakeFails("listen")
       ELSE wPc' = "record" /\ UNCHANGED <<cancelRun, wErr>>
    /\ UNCHANGED <<ctxCancelled, runVars, wRec, sawDone, wakes, fileVars,
                   uploadTaskVars, playerVars, failed>>

\* o.recorder.RecordAudio(ctx, 8*time.Second)
RecordAudio(ok) ==
    /\ wPc = "record"
    /\ IF ok
       THEN /\ wPc' = "sendRec"
            /\ wRec' = wakes
            /\ UNCHANGED <<cancelRun, failed, wErr>>
       ELSE /\ RecordUponWakeFails("record")
            /\ failed' = TRUE
            /\ UNCHANGED wRec
    /\ UNCHANGED <<ctxCancelled, runVars, listenVars, fileVars,
                   uploadTaskVars, playerVars>>

\* resCh <- audio and the file task's case recordResult, ok := <-recordCh
RecordChTransfer ==
    /\ wPc = "sendRec"
    /\ fPc = "select"
    /\ ~recordChClosed
    /\ wPc' = "loop"
    /\ wRec' = 0
    /\ fPc' = "save"
    /\ UNCHANGED wErr
    /\ fRec' = wRec
    /\ UNCHANGED <<ctxVars, runVars, listenVars, recFiles, uploadTaskVars,
                   playerVars, failed>>

(***************************************************************************)
(* porcupineListener.Listen                                                *)
(***************************************************************************)
\* porcupine.Init, portaudio.Initialize, OpenDefaultStream, stream.Start
ListenInit(ok) ==
    /\ lPc = "init"
    /\ IF ok
       THEN lPc' = "select" /\ UNCHANGED <<lResult, failed>>
       ELSE lPc' = "sendWake" /\ lResult' = "err" /\ failed' = TRUE
    /\ UNCHANGED <<ctxVars, runVars, wakeVars, sawDone, wakes, fileVars,
                   uploadTaskVars, playerVars>>

\* the select of the detection loop: the case <-ctx.Done() has an empty
\* body, so the loop goes round again; default reads a frame
ListenSelect ==
    /\ lPc = "select"
    /\ IF CtxWithCancelDone
       THEN sawDone' = TRUE /\ UNCHANGED lPc
       ELSE lPc' = "frame" /\ UNCHANGED sawDone
    /\ UNCHANGED <<ctxVars, runVars, wakeVars, lResult, wakes, fileVars,
                   uploadTaskVars, playerVars, failed>>

\* stream.Read and porcupine.Process: an error or no keyword continues the
\* loop, a keyword returns nil
ListenFrame(outcome) ==
    /\ lPc = "frame"
    /\ IF outcome = "keyword"
       THEN /\ wakes < MaxWakes
            /\ wakes' = wakes + 1
            /\ lPc' = "sendWake"
            /\ lResult' = "nil"
       ELSE /\ lPc' = "select"
            /\ UNCHANGED <<wakes, lResult>>
    /\ UNCHANGED <<ctxVars, runVars, wakeVars, sawDone, fileVars,
                   uploadTaskVars, playerVars, failed>>

(***************************************************************************)
(* The record processing goroutine of Run                                  *)
(***************************************************************************)
\* case <-ctx.Done(), on the ctx passed to Run
FileTaskCancelled ==
    /\ fPc = "select"
    /\ ctxCancelled
    /\ fPc' = "done"
    /\ UNCHANGED <<ctxVars, runVars, wakeVars, listenVars, fRec, recFiles,
                   uploadTaskVars, playerVars, failed>>

\* case recordResult, ok := <-recordCh with !ok
FileTaskRecordChClosed ==
    /\ fPc = "select"
    /\ recordChClosed
    /\ fPc' = "done"
    /\ UNCHANGED <<ctxVars, runVars, wakeVars, listenVars, fRec, recFiles,
                   uploadTaskVars, playerVars, failed>>

\* os.Create(filePath) and recordResult.SaveTo(f): an error calls cancel()
\* and leaves the inner function only, so the path is sent all the same
FileTaskSave(outcome) ==
    /\ fPc = "save"
    /\ fPc' = "sendPath"
    /\ recFiles' = IF outcome = "createError" THEN recFiles
                   ELSE recFiles \cup {fRec}
    /\ IF outcome = "ok"
       THEN UNCHANGED <<cancelRun, failed>>
       ELSE cancelRun' = TRUE /\ failed' = TRUE
    /\ UNCHANGED <<ctxCancelled, runVars, wakeVars, listenVars, fRec,
                   uploadTaskVars, playerVars>>

\* fpCh <- filePath and the upload task's case filePath, ok := <-fpCh
FpChTransfer ==
    /\ fPc = "sendPath"
    /\ uPc = "select"
    /\ ~fpChClosed
    /\ fPc' = "select"
    /\ fRec' = 0
    /\ uPc' = "open"
    /\ uRec' = fRec
    /\ UNCHANGED uErr
    /\ UNCHANGED <<ctxVars, runVars, wakeVars, listenVars, recFiles, aLeft,
                   uploaded, playerVars, failed>>

(***************************************************************************)
(* The upload and playback goroutine of Run, and the player                *)
(***************************************************************************)
\* case <-ctx.Done() of the outer or the inner select
UploadTaskCancelled ==
    /\ uPc \in {"select", "inner"}
    /\ ctxCancelled
    /\ uPc' = "done"
    /\ UNCHANGED <<ctxVars, runVars, wakeVars, listenVars, fileVars, uRec,
                   uErr, aLeft, uploaded, playerVars, failed>>

\* case filePath, ok := <-fpCh with !ok
UploadTaskFpChClosed ==
    /\ uPc = "select"
    /\ fpChClosed
    /\ uPc' = "done"
    /\ UNCHANGED <<ctxVars, runVars, wakeVars, listenVars, fileVars, uRec,
                   uErr, aLeft, uploaded, playerVars, failed>>

\* os.Open(filePath), o.voiceAssistant.Assist(ctx, &req) and, if both
\* succeed, the start of the player goroutine; replies is the number of
\* chunks the assistance channel will deliver before it is closed
UploadTaskAssist(outcome, replies) ==
    /\ uPc = "open"
    /\ IF uRec \notin recFiles \/ outcome # "ok"
       THEN /\ uPc' = "done"
            /\ failed' = TRUE
            /\ uErr' = IF uRec \in recFiles /\ outcome = "assistError"
                       THEN "assist" ELSE "open"
            /\ uploaded' = IF uRec \in recFiles /\ outcome = "assistError"
                           THEN uploaded \cup {uRec} ELSE uploaded
            /\ UNCHANGED <<aLeft, pPc>>
       ELSE /\ uPc' = "inner"
            /\ uploaded' = uploaded \cup {uRec}
            /\ aLeft' = replies
            /\ pPc' = "init"
            /\ UNCHANGED <<failed, uErr>>
    /\ UNCHANGED <<ctxVars, runVars, wakeVars, listenVars, fileVars, uRec,
                   played>>

\* case res, ok := <-assistance: a closed channel makes the goroutine
\* return; otherwise io.ReadAll(res.Audio), whose error returns too
UploadTaskReceive(readOk) ==
    /\ uPc = "inner"
    /\ IF aLeft = 0
       THEN /\ uPc' = "done"
            /\ UNCHANGED <<aLeft, failed, uErr>>
       ELSE /\ aLeft' = aLeft - 1
            /\ IF readOk
               THEN uPc' = "sendStream" /\ UNCHANGED <<failed, uErr>>
               ELSE uPc' = "done" /\ failed' = TRUE /\ uErr' = "read"
    /\ UNCHANGED <<ctxVars, runVars, wakeVars, listenVars, fileVars, uRec,
                   uploaded, playerVars>>

\* the start of PlaybackStream: portaudio and the output stream
PlaybackStreamInit(ok) ==
    /\ pPc = "init"
    /\ IF ok
       THEN pPc' = "select" /\ UNCHANGED failed
       ELSE pPc' = "done" /\ failed' = TRUE
    /\ UNCHANGED <<ctxVars, runVars, wakeVars, listenVars, fileVars,
                   uploadTaskVars, played>>

\* case <-ctx.Done() of PlaybackStream
PlaybackStreamCancelled ==
    /\ pPc = "select"
    /\ ctxCancelled
    /\ pPc' = "done"
    /\ UNCHANGED <<ctxVars, runVars, wakeVars, listenVars, fileVars,
                   uploadTaskVars, played, failed>>

\* streamCh <- data and the player's case audio, ok := <-audioStream
StreamChTransfer ==
    /\ uPc = "sendStream"
    /\ pPc = "select"
    /\ uPc' = "inner"
    /\ played' = played + 1
    /\ UNCHANGED <<ctxVars, runVars, wakeVars, listenVars, fileVars, uRec,
                   uErr, aLeft, uploaded, pPc, failed>>

(***************************************************************************)
(* Part V - the device's HTTP client, ReceiveVoiceAssistance               *)
(*                                                                         *)
(* After a 200 response the client starts a goroutine that reads the       *)
(* response body and sends every non-empty read on the unbuffered channel  *)
(* it returned; the consumer of that channel receives chunks until it      *)
(* stops.  The deferred close(ch) and resp.Body.Close() run when the       *)
(* goroutine returns.                                                      *)
(***************************************************************************)
MaxBody == 4

VARIABLES
    rvaCtxDone,     \* the ctx given to ReceiveVoiceAssistance is done
    rvaPc,          \* reader goroutine: "select", "send", "done"
    rvaBuf,         \* the chunk the reader is sending (0: none)
    rvaErr,         \* the err of the Read whose bytes are being sent
    rvaReadLog,     \* the non-empty reads of the response body, in order
    rvaDelivered,   \* the chunks the consumer has received
    rvaChClosed,    \* number of close(ch) executed
    rvaBodyClosed,  \* number of resp.Body.Close() executed
    rvaConsumer     \* the consumer: "recv", "busy" (handling a chunk),
                    \* "stopped"

clientVars ==
    <<rvaCtxDone, rvaPc, rvaBuf, rvaErr, rvaReadLog, rvaDelivered,
      rvaChClosed, rvaBodyClosed, rvaConsumer>>

ClientInit ==
    /\ rvaCtxDone = FALSE
    /\ rvaPc = "select"
    /\ rvaBuf = 0
    /\ rvaErr = "nil"
    /\ rvaReadLog = <<>>
    /\ rvaDelivered = <<>>
    /\ rvaChClosed = 0
    /\ rvaBodyClosed = 0
    /\ rvaConsumer = "recv"

\* the caller cancels ctx
RvaCancel ==
    /\ ~rvaCtxDone
    /\ rvaCtxDone' = TRUE
    /\ UNCHANGED <<rvaPc, rvaBuf, rvaErr, rvaReadLog, rvaDelivered,
                   rvaChClosed, rvaBodyClosed, rvaConsumer>>

\* the goroutine returns: the deferred close(ch) and resp.Body.Close()
RvaExit ==
    /\ rvaPc' = "done"
    /\ rvaChClosed' = rvaChClosed + 1
    /\ rvaBodyClosed' = rvaBodyClosed + 1

\* one round of the loop: case <-ctx.Done() if it is ready, else default,
\* resp.Body.Read returning n > 0 bytes (hasData) and err
RvaRead(hasData, err) ==
    /\ rvaPc = "select"
    /\ IF rvaCtxDone
       THEN /\ RvaExit
            /\ UNCHANGED <<rvaBuf, rvaErr, rvaReadLog>>
       ELSE /\ hasData \/ err # "nil"
            /\ hasData => Len(rvaReadLog) < MaxBody
            /\ IF hasData
               THEN /\ rvaReadLog' = Append(rvaReadLog, Len(rvaReadLog) + 1)
                    /\ rvaBuf' = Len(rvaReadLog) + 1
                    /\ rvaErr' = err
                    /\ rvaPc' = "send"
                    /\ UNCHANGED <<rvaChClosed, rvaBodyClosed>>
               ELSE /\ RvaExit
                    /\ UNCHANGED <<rvaBuf, rvaErr, rvaReadLog>>
    /\ UNCHANGED <<rvaCtxDone, rvaDelivered, rvaConsumer>>

\* ch <- copyBuf and the consumer's receive; then `if err != nil` returns
RvaChTransfer ==
    /\ rvaPc = "send"
    /\ rvaConsumer = "recv"
    /\ rvaDelivered' = Append(rvaDelivered, rvaBuf)
    /\ rvaConsumer' = "busy"
    /\ rvaBuf' = 0
    /\ rvaErr' = "nil"
    /\ IF rvaErr # "nil"
       THEN RvaExit
       ELSE rvaPc' = "select" /\ UNCHANGED <<rvaChClosed, rvaBodyClosed>>
    /\ UNCHANGED <<rvaCtxDone, rvaReadLog>>

\* the consumer has handled the chunk and receives again
RvaConsumerNext ==
    /\ rvaConsumer = "busy"
    /\ rvaConsumer' = "recv"
    /\ UNCHANGED <<rvaCtxDone, rvaPc, rvaBuf, rvaErr, rvaReadLog,
                   rvaDelivered, rvaChClosed, rvaBodyClosed>>

\* the consumer stops receiving (it returned on its context or an error)
RvaConsumerStops ==
    /\ rvaConsumer # "stopped"
    /\ rvaConsumer' = "stopped"
    /\ UNCHANGED <<rvaCtxDone, rvaPc, rvaBuf, rvaErr, rvaReadLog,
                   rvaDelivered, rvaChClosed, rvaBodyClosed>>

(***************************************************************************)
(* Part VI - authentication and authorization middleware                   *)
(*                                                                         *)
(* A request is served by the chain Wrap built for its route: Authenticated*)
(* runs its AuthenticationFunc and answers 401 on an error, Authorized     *)
(* runs its AuthorizationFuncs in order and answers 403 on the first       *)
(* error, and the handler runs when every middleware called the next one.  *)
(***************************************************************************)
StatusUnauthorized == 401
StatusForbidden == 403

DeviceCNs == {"d1", "d2"}

\* a JWT as ParseJWT sees it: whether it has the three segments of a compact
\* token, the algorithm of its header, whether the signature verifies under
\* the key, whether exp has passed, and the id and email claims
Token(wellFormed, alg, sigOk, expired, id, email) ==
    [wellFormed |-> wellFormed, alg |-> alg, sigOk |-> sigOk,
     expired |-> expired, id |-> id, email |-> email]

Tokens ==
    {Token(TRUE, "HS256", TRUE, FALSE, u, "local") : u \in Users}
    \cup {Token(TRUE, "HS256", FALSE, FALSE, "u1", "local"),
          Token(TRUE, "none", TRUE, FALSE, "u1", "local"),
          Token(TRUE, "HS256", TRUE, TRUE, "u1", "local"),
          Token(FALSE, "", FALSE, FALSE, "", "")}

\* the Authorization header: absent, or a scheme prefix and a token
AuthHeaders ==
    {<<>>} \cup {<<"Basic ", t>> : t \in {tk \in Tokens : tk.id = "u2"}}
           \cup {<<"Bearer ", t>> : t \in Tokens}

\* the certificate header: empty, or a value that is PEM or not, whose block
\* is a parsable certificate or not, with the subject common name cn
NoCertHeader == [empty |-> TRUE, pem |-> FALSE, der |-> FALSE, cn |-> ""]
CertHeaders ==
    {NoCertHeader,
     [empty |-> FALSE, pem |-> FALSE, der |-> FALSE, cn |-> ""],
     [empty |-> FALSE, pem |-> TRUE, der |-> FALSE, cn |-> ""]}
    \cup {[empty |-> FALSE, pem |-> TRUE, der |-> TRUE, cn |-> d] :
              d \in DeviceCNs}

\* the values the request context carries
NoValue == [present |-> FALSE, id |-> ""]
ContextValue(id) == [present |-> TRUE, id |-> id]
EmptyContext == [principal |-> NoValue, device |-> NoValue]

ParseJWT_AnySignature(t) ==
    IF t.wellFormed /\ t.alg = "HS256" /\ ~t.expired
    THEN [err |-> FALSE, ID |-> t.id, Email |-> t.email]
    ELSE [err |-> TRUE, ID |-> "", Email |-> ""]

\* ParseJWT: HS256 only, the signature verified under the key, exp validated
ParseJWT(t) ==
    IF t.wellFormed /\ t.alg = "HS256" /\ t.sigOk /\ ~t.expired
    THEN [err |-> FALSE, ID |-> t.id, Email |-> t.email]
    ELSE [err |-> TRUE, ID |-> "", Email |-> ""]

WithJWT(req, ctx) ==
    LET authHeader == req.authorization
    IN IF Len(authHeader) = 0
       THEN [err |-> TRUE, ctx |-> ctx]
       ELSE IF authHeader[1] # "Bearer "
       THEN [err |-> TRUE, ctx |-> ctx]
       ELSE LET claims == ParseJWT(authHeader[2])
            IN IF claims.err
               THEN [err |-> TRUE, ctx |-> ctx]
               ELSE [err |-> FALSE,
                     ctx |-> [ctx EXCEPT
                                  !.principal = ContextValue(claims.ID)]]

WithDeviceCertHeader(req, ctx) ==
    LET certHeader == req.cert
    IN IF certHeader.empty
       THEN [err |-> TRUE, ctx |-> ctx]
       ELSE IF ~certHeader.pem
       THEN [err |-> TRUE, ctx |-> ctx]
       ELSE IF ~certHeader.der
       THEN [err |-> TRUE, ctx |-> ctx]
       ELSE [err |-> FALSE,
             ctx |-> [ctx EXCEPT !.device = ContextValue(certHeader.cn)]]

AuthenticationFunc(af, req, ctx) ==
    IF af = "WithJWT" THEN WithJWT(req, ctx)
    ELSE WithDeviceCertHeader(req, ctx)

\* r.PathValue(param): the value the router matched for a wildcard of the
\* route's pattern, "" for a name the pattern does not have
PathValue(pattern, req, param) ==
    IF param \in pattern THEN req.path[param] ELSE ""

\* userPrincipal.Roles()
Roles == {"ROLE_USER"}

\* the AuthorizationFuncs: TRUE when the func returns an error
WithRoles(roles, ctx) ==
    IF ~ctx.principal.present THEN TRUE
    ELSE roles \cap Roles = {}

WithUserId(param, pattern, req, ctx) ==
    IF ~ctx.principal.present THEN TRUE
    ELSE IF PathValue(pattern, req, param) = "" THEN TRUE
    ELSE PathValue(pattern, req, param) # ctx.principal.id

HavingDeviceID(param, pattern, req, ctx) ==
    IF ~ctx.device.present THEN TRUE
    ELSE IF PathValue(pattern, req, param) = "" THEN TRUE
    ELSE PathValue(pattern, req, param) # ctx.device.id

AuthorizationFunc(fn, pattern, req, ctx) ==
    IF fn.name = "WithRoles" THEN WithRoles(fn.roles, ctx)
    ELSE IF fn.name = "WithUserId"
    THEN WithUserId(fn.param, pattern, req, ctx)
    ELSE HavingDeviceID(fn.param, pattern, req, ctx)

\* the middleware values a route is wrapped with
Authenticated(af) == [kind |-> "Authenticated", af |-> af, fns |-> <<>>]
Authorized(authFuncs) ==
    [kind |-> "Authorized", af |-> "", fns |-> authFuncs]
UserIdFn(param) == [name |-> "WithUserId", param |-> param, roles |-> {}]
DeviceIDFn(param) ==
    [name |-> "HavingDeviceID", param |-> param, roles |-> {}]
RolesFn(roles) == [name |-> "WithRoles", param |-> "", roles |-> roles]

\* Wrap: the loop from the last middleware to the first wraps the handler, so
\* the result runs the middlewares first to last; layers lists them from the
\* outermost to the innermost
RECURSIVE WrapLoop_Reversed(_, _, _)
WrapLoop_Reversed(middlewares, i, layers) ==
    IF i = 0 THEN layers
    ELSE WrapLoop_Reversed(middlewares, i - 1,
                           Append(layers, middlewares[i]))

RECURSIVE WrapLoop(_, _, _)
WrapLoop(middlewares, i, layers) ==
    IF i = 0 THEN layers
    ELSE WrapLoop(middlewares, i - 1, <<middlewares[i]>> \o layers)

Wrap(middlewares) == WrapLoop(middlewares, Len(middlewares), <<>>)

\* the loop of Authorized over its funcs from the i-th on: the funcs invoked
\* and whether one of them returned an error
RECURSIVE AuthorizedLoop(_, _, _, _, _, _)
AuthorizedLoop(fns, i, pattern, req, ctx, trace) ==
    IF i > Len(fns) THEN [err |-> FALSE, trace |-> trace]
    ELSE IF AuthorizationFunc(fns[i], pattern, req, ctx)
    THEN [err |-> TRUE, trace |-> Append(trace, fns[i].name)]
    ELSE AuthorizedLoop(fns, i + 1, pattern, req, ctx,
                        Append(trace, fns[i].name))

\* ServeHTTP of the wrapped handler from the i-th layer on: the status a
\* middleware wrote (0: none, the handler was reached), the funcs and the
\* handler invoked in order, and the context the handler sees
RECURSIVE ServeHTTP(_, _, _, _, _, _)
ServeHTTP(layers, i, pattern, req, ctx, trace) ==
    IF i > Len(layers)
    THEN [status |-> 0, trace |-> Append(trace, "handler"), ctx |-> ctx]
    ELSE IF layers[i].kind = "Authenticated"
    THEN LET a == AuthenticationFunc(layers[i].af, req, ctx)
         IN IF a.err
            THEN [status |-> StatusUnauthorized,
                  trace |-> Append(trace, layers[i].af), ctx |-> ctx]
            ELSE ServeHTTP(layers, i + 1, pattern, req, a.ctx,
                           Append(trace, layers[i].af))
    ELSE LET z == AuthorizedLoop(layers[i].fns, 1, pattern, req, ctx, trace)
         IN IF z.err
            THEN [status |-> StatusForbidden, trace |-> z.trace,
                  ctx |-> ctx]
            ELSE ServeHTTP(layers, i + 1, pattern, req, ctx, z.trace)

\* the routes main registers behind middleware: the wildcards of the pattern
\* and the middlewares given to WrapFunc
PostReceiveVoiceAssistance ==
    [pattern |-> {},
     middlewares |-> <<Authenticated("WithDeviceCertHeader"),
                       Authorized(<<DeviceIDFn("deviceId")>>)>>]
PostRegisterDeviceURL_Unchecked ==
    [pattern |-> {"userId"},
     middlewares |-> <<Authenticated("WithJWT"), Authorized(<<>>)>>]
PostRegisterDeviceURL ==
    [pattern |-> {"userId"},
     middlewares |-> <<Authenticated("WithJWT"),
                       Authorized(<<UserIdFn("userId")>>)>>]

\* compositions of the package's funcs other than those of main: several
\* funcs in one Authorized, HavingDeviceID on a pattern with the wildcard,
\* and a func that finds no principal in the context
LibraryRoutes ==
    {[pattern |-> {"userId"},
      middlewares |-> <<Authenticated("WithJWT"),
                        Authorized(<<RolesFn({"ROLE_USER"}),
                                     UserIdFn("userId")>>)>>],
     [pattern |-> {"userId"},
      middlewares |-> <<Authenticated("WithJWT"),
                        Authorized(<<UserIdFn("userId"),
                                     RolesFn({"admin"})>>)>>],
     [pattern |-> {"userId"},
      middlewares |-> <<Authenticated("WithDeviceCertHeader"),
                        Authorized(<<UserIdFn("userId")>>)>>],
     [pattern |-> {"id"},
      middlewares |-> <<Authenticated("WithDeviceCertHeader"),
                        Authorized(<<DeviceIDFn("id")>>)>>]}

\* the requests a route can receive: the credential header its
\* authentication reads, a value for each wildcard of its pattern, and, on a
\* pattern without wildcard, the deviceId query parameter
RouteRequests(route) ==
    [authorization : IF route.middlewares[1].af = "WithJWT"
                     THEN AuthHeaders ELSE {<<>>},
     cert : IF route.middlewares[1].af = "WithDeviceCertHeader"
            THEN CertHeaders ELSE {NoCertHeader},
     path : [route.pattern -> IF "userId" \in route.pattern
                              THEN UserIds ELSE DeviceCNs],
     query : IF route.pattern = {} THEN {""} \cup DeviceCNs ELSE {""}]

VARIABLES
    mwRoute,    \* the route of the request served last ("" before any)
    mwReq,      \* that request
    mwStatus,   \* the status of its response
    mwTrace,    \* the funcs and the handler invoked for it, in order
    mwContext,  \* the context its handler saw
    mwDevices   \* the device rows before it was served

middlewareVars ==
    <<mwRoute, mwReq, mwStatus, mwTrace, mwContext, mwDevices>>

NoRequest ==
    [authorization |-> <<>>, cert |-> NoCertHeader, path |-> <<>>,
     query |-> ""]
NoRoute == [pattern |-> {}, middlewares |-> <<>>]

MiddlewareInit ==
    /\ mwRoute = NoRoute
    /\ mwReq = NoRequest
    /\ mwStatus = 0
    /\ mwTrace = <<>>
    /\ mwContext = EmptyContext
    /\ mwDevices = devices

\* the part of serving a request that every route shares
Served(route, req) ==
    ServeHTTP(Wrap(route.middlewares), 1, route.pattern, req, EmptyContext,
              <<>>)

ObserveRequest(route, req) ==
    /\ mwRoute' = route
    /\ mwReq' = req
    /\ mwTrace' = Served(route, req).trace
    /\ mwContext' = Served(route, req).ctx
    /\ mwDevices' = devices

\* POST /v1/users/{userId}/devices
ServeRegisterDevice(req, parsable, name, otp, fault) ==
    /\ ObserveRequest(PostRegisterDeviceURL, req)
    /\ IF Served(PostRegisterDeviceURL, req).status = 0
       THEN /\ HandlePostRegisterDevice(
                   PathValue(PostRegisterDeviceURL.pattern, req, "userId"),
                   parsable, name, otp, fault)
            /\ mwStatus' = last'.resp.status
       ELSE /\ mwStatus' = Served(PostRegisterDeviceURL, req).status
            /\ UNCHANGED deviceVars

\* POST /v1/voice-assistance
ServeVoiceAssistance(req, fail) ==
    /\ ObserveRequest(PostReceiveVoiceAssistance, req)
    /\ IF Served(PostReceiveVoiceAssistance, req).status = 0
       THEN /\ HandleAssistStart(fail)
            /\ mwStatus' = status'
       ELSE /\ mwStatus' = Served(PostReceiveVoiceAssistance, req).status
            /\ UNCHANGED assistVars

\* a library route, whose handler answers 200
ServeLibraryRoute(route, req) ==
    /\ ObserveRequest(route, req)
    /\ mwStatus' = IF Served(route, req).status = 0 THEN StatusOK
                   ELSE Served(route, req).status

(***************************************************************************)
(* Part VII - tokens: NewUserClaims, GenerateJWT and ParseJWT              *)
(*                                                                         *)
(* A compact token is its header algorithm, its claims and a MAC over      *)
(* both.  jwt.ParseWithClaims splits the token, admits the algorithm only  *)
(* if it is a valid method, recomputes the MAC under the given key and     *)
(* validates exp against the current time.                                 *)
(***************************************************************************)
tokenValidity == 86400
ZeroTime == 0
Keys == {"k1", "k2"}
IssueTime == 1
\* the instants at which a token is parsed
ParseTimes == {1, 2, tokenValidity, tokenValidity + 1, tokenValidity + 2}
\* the Expires a caller of GenerateJWT may have set (ZeroTime: unset)
ExpiresGiven == {ZeroTime, 2}

\* HMAC over the signing input: equal exactly for equal algorithm, key and
\* input
HMAC(alg, key, input) == [alg |-> alg, key |-> key, input |-> input]
SigningInput(ts) == <<ts.alg, ts.id, ts.email, ts.sub, ts.exp>>

NewUserClaims(id, email, now) ==
    [ID |-> id, Email |-> email, Expires |-> now + tokenValidity]

GenerateJWT(key, claims, now) ==
    LET expires == IF claims.Expires = ZeroTime THEN now + tokenValidity
                   ELSE claims.Expires
        unsigned == [wellFormed |-> TRUE, alg |-> "HS256", id |-> claims.ID,
                     email |-> claims.Email, sub |-> claims.ID,
                     exp |-> expires]
    IN [wellFormed |-> TRUE, alg |-> "HS256", id |-> claims.ID,
        email |-> claims.Email, sub |-> claims.ID, exp |-> expires,
        mac |-> HMAC("HS256", key, SigningInput(unsigned))]

\* what a holder of a token can make of it without the key (an altered
\* signature, an altered claim, the algorithm none, a string that is no
\* token) or with it (the same claims signed with HS384)
Tamperings == {"signature", "claim", "none", "malformed", "HS384"}
Tamper(ts, kind, key) ==
    IF kind = "signature" THEN [ts EXCEPT !.mac.key = "altered"]
    ELSE IF kind = "claim" THEN [ts EXCEPT !.id = "u3"]
    ELSE IF kind = "malformed" THEN [ts EXCEPT !.wellFormed = FALSE]
    ELSE IF kind = "none"
    THEN [ts EXCEPT !.alg = "none",
                    !.mac = HMAC("none", "",
                                 SigningInput([ts EXCEPT !.alg = "none"]))]
    ELSE [ts EXCEPT !.alg = "HS384",
                    !.mac = HMAC("HS384", key,
                                 SigningInput([ts EXCEPT !.alg = "HS384"]))]

\* the validator's test of exp: the token is valid while now is before exp
Expired_Never(exp, now) == FALSE
Expired(exp, now) == ~(now < exp)

\* what jwt.ParseWithClaims finds in the compact token ts under key at now
TokenAt(ts, key, now) ==
    Token(ts.wellFormed, ts.alg,
          ts.mac = HMAC(ts.alg, key, SigningInput(ts)),
          Expired(ts.exp, now), ts.id, ts.email)

NotParsed == [err |-> TRUE, ID |-> "<none>", Email |-> "<none>"]

VARIABLES
    jwtClaims,    \* the claims given to GenerateJWT
    jwtSignKey,   \* the key given to GenerateJWT
    jwtTs,        \* the token: as generated, or as tampered with
    jwtTampering, \* what was done to it ("" : nothing)
    jwtParseKey,  \* the key given to ParseJWT
    jwtNow,       \* the time of the last call
    jwtParsed     \* what ParseJWT returned (NotParsed before the call)

jwtVars ==
    <<jwtClaims, jwtSignKey, jwtTs, jwtTampering, jwtParseKey, jwtNow,
      jwtParsed>>

NoClaims == [ID |-> "", Email |-> "", Expires |-> ZeroTime]

JwtInit ==
    /\ jwtClaims = NoClaims
    /\ jwtSignKey = ""
    /\ jwtTs = GenerateJWT("", NoClaims, IssueTime)
    /\ jwtTampering = ""
    /\ jwtParseKey = ""
    /\ jwtNow = IssueTime
    /\ jwtParsed = NotParsed

\* GenerateJWT(key, claims) at IssueTime
JwtGenerate(key, claims) ==
    /\ jwtClaims' = claims
    /\ jwtSignKey' = key
    /\ jwtTs' = GenerateJWT(key, claims, IssueTime)
    /\ jwtTampering' = ""
    /\ jwtNow' = IssueTime
    /\ jwtParsed' = NotParsed
    /\ UNCHANGED jwtParseKey

\* the holder alters the token
JwtTamper(kind) ==
    /\ jwtSignKey # ""
    /\ jwtTampering = ""
    /\ jwtTs' = Tamper(jwtTs, kind, jwtSignKey)
    /\ jwtTampering' = kind
    /\ jwtParsed' = NotParsed
    /\ UNCHANGED <<jwtClaims, jwtSignKey, jwtParseKey, jwtNow>>

\* ParseJWT(ts, key) at time now
JwtParse(key, now) ==
    /\ jwtSignKey # ""
    /\ jwtParseKey' = key
    /\ jwtNow' = now
    /\ jwtParsed' = ParseJWT(TokenAt(jwtTs, key, now))
    /\ UNCHANGED <<jwtClaims, jwtSignKey, jwtTs, jwtTampering>>

(***************************************************************************)
(* Part VIII - user accounts: local signup, local login, external login    *)
(***************************************************************************)
StatusNotFound == 404
StatusCreated == 201
LocalProvider == "local"
GoogleProvider == "google"

\* the signing secret the server is configured with
JWTKey == "k1"

\* request values: the zero value, an ill-formed address, one address in two
\* letter cases, the address of an external account
ReqEmails == {"", "wrong-email", "a@x.io", "A@X.io", "g@x.io"}
SignupEmails == ReqEmails \ {"g@x.io"}
ExternalEmails == {"g@x.io"}
\* the zero value, a password of five characters, two passwords of nine
ReqPasswords == {"", "short", "password1", "password2"}
SignupFaults == {"none", "find", "hash", "uuid", "save"}
LoginFaults == {"none", "find", "sign"}

\* strings.ToLower on the request values
ToLower(s) == IF s = "A@X.io" THEN "a@x.io" ELSE s

\* the Email() test of the validation library on the request values
IsEmail(s) == s \in {"a@x.io", "A@X.io", "g@x.io"}

\* a string field of a schema without Required(): the zero value is taken as
\* absent and skips the field's tests
EmailIssues(v) == v # "" /\ ~(IsEmail(v) /\ Len(v) >= 5 /\ Len(v) <= 254)
PasswordIssues(v) == v # "" /\ ~(Len(v) >= 8 /\ Len(v) <= 128)

\* TRUE iff Validate reports issues
localLoginSchema(creds) ==
    EmailIssues(creds.Email) \/ PasswordIssues(creds.Password)

\* firstname and lastname are always sent well-formed and are left out
localSignupSchema(ls) ==
    \/ EmailIssues(ls.Email)
    \/ PasswordIssues(ls.Password)
    \/ PasswordIssues(ls.PasswordRepeat)
    \/ ls.Password # ls.PasswordRepeat

BcryptPrefix == "$2a$10$"
GenerateFromPassword_Plaintext(password) == password
GenerateFromPassword(password) == BcryptPrefix \o password
\* TRUE iff the password matches the hash (err = nil)
CompareHashAndPassword(hash, password) == hash = BcryptPrefix \o password

\* a nil *string
NoPassword == "<nil>"
NoUser == [ID |-> "", Email |-> "", Provider |-> "", PasswordHash |-> NoPassword]
NewLocalUser(id, email, passwordHash) ==
    [ID |-> id, Email |-> email, Provider |-> LocalProvider,
     PasswordHash |-> passwordHash]
NewGoogleUser(id, email) ==
    [ID |-> id, Email |-> email, Provider |-> GoogleProvider,
     PasswordHash |-> NoPassword]

\* the identifiers the users table gives its rows, in order of creation
RowIds == <<"u1", "u2", "u3", "u4">>

\* the users table: rows keyed by their (unique) email column
FindByEmail(rows, email, fault) ==
    IF fault THEN [err |-> "db", user |-> NoUser]
    ELSE IF email \notin DOMAIN rows
    THEN [err |-> "UserNotFound", user |-> NoUser]
    ELSE [err |-> "", user |-> rows[email]]

\* inserts the row of a new user under a fresh identifier; the unique index on
\* the email column refuses a second row with the same email
UserRepoSave(rows, user, fault) ==
    IF fault \/ user.Email \in DOMAIN rows
    THEN [err |-> TRUE, rows |-> rows]
    ELSE LET row == [user EXCEPT !.ID = RowIds[Cardinality(DOMAIN rows) + 1]]
         IN [err |-> FALSE,
             rows |-> [e \in DOMAIN rows \cup {user.Email} |->
                          IF e = user.Email THEN row ELSE rows[e]]]

NewUserPrincipal(uc) == [ID |-> uc.ID, Email |-> uc.Email, Roles |-> <<"ROLE_USER">>]

NoToken == [wellFormed |-> FALSE]

VARIABLES
    acctUsers,   \* the users table
    acctLast     \* the last request served and its response

accountVars == <<acctUsers, acctLast>>

NoAccountRequest ==
    [op |-> "none", body |-> [parsable |-> FALSE], fault |-> "none",
     status |-> 0, ID |-> "", token |-> NoToken, before |-> <<>>]

AccountInit ==
    /\ acctUsers = <<>>
    /\ acctLast = NoAccountRequest

HandleSignup(body, fault) ==
    LET ls == body
        issues == localSignupSchema(ls)
        email == ToLower(ls.Email)
        found == FindByEmail(acctUsers, email, fault = "find")
        passwordHash == GenerateFromPassword(ls.Password)
        user == NewLocalUser("uuid", email, passwordHash)
        saved == UserRepoSave(acctUsers, user, fault = "save")
        code ==
            IF ~body.parsable THEN StatusBadRequest
            ELSE IF issues THEN StatusBadRequest
            ELSE IF found.err # "UserNotFound" /\ found.user # NoUser
            THEN StatusBadRequest
            ELSE IF fault = "hash" THEN StatusInternalServerError
            ELSE IF fault = "uuid" THEN StatusInternalServerError
            ELSE IF saved.err THEN StatusInternalServerError
            ELSE StatusCreated
    IN /\ acctUsers' = IF code = StatusCreated THEN saved.rows ELSE acctUsers
       /\ acctLast' = [op |-> "signup", body |-> body, fault |-> fault,
                       status |-> code, ID |-> "", token |-> NoToken,
                       before |-> acctUsers]

\* the external login's findOrCreateUser: the address is used as given
FindOrCreateUser(email, fault) ==
    LET found == FindByEmail(acctUsers, email, fault = "find")
        saved == UserRepoSave(acctUsers, NewGoogleUser("uuid", email),
                              fault = "save")
        created == found.err = "UserNotFound" /\ ~saved.err
    IN /\ acctUsers' = IF created THEN saved.rows ELSE acctUsers
       /\ acctLast' = [op |-> "external", body |-> [parsable |-> TRUE,
                                                     Email |-> email],
                       fault |-> fault,
                       status |-> IF found.err = "" \/ created
                                  THEN StatusOK
                                  ELSE StatusInternalServerError,
                       ID |-> "", token |-> NoToken, before |-> acctUsers]

HandleLogin(body, fault) ==
    LET creds == body
        issues == localLoginSchema(creds)
        email == ToLower(creds.Email)
        found == FindByEmail(acctUsers, email, fault = "find")
        user == found.user
        claims == NewUserClaims(user.ID, user.Provider, IssueTime)
        jwtToken == GenerateJWT(JWTKey, claims, IssueTime)
        code ==
            IF ~body.parsable THEN StatusBadRequest
            ELSE IF issues THEN StatusBadRequest
            ELSE IF found.err # "" THEN StatusNotFound
            ELSE IF user.Provider # LocalProvider THEN StatusNotFound
            ELSE IF ~CompareHashAndPassword(user.PasswordHash, creds.Password)
            THEN StatusNotFound
            ELSE IF fault = "sign" THEN StatusInternalServerError
            ELSE StatusOK
    IN /\ acctLast' = [op |-> "login", body |-> body, fault |-> fault,
                       status |-> code,
                       ID |-> IF code = StatusOK THEN user.ID ELSE "",
                       token |-> IF code = StatusOK THEN jwtToken
                                 ELSE NoToken,
                       before |-> acctUsers]
       /\ UNCHANGED acctUsers

(***************************************************************************)
(* Part IX - the CA signing adapter                                        *)
(***************************************************************************)
MaxSigns == 4

\* the adapter's configuration
provisionerToken == "provisioner-password"
SignCSRs == {"csr-a", "csr-b"}
\* what becomes of the POST: the client fails, the CA answers another status
\* than 201, the answer cannot be decoded, the CA answers 201 with a chain
SignOutcomes == {"send", "status", "decode", "created"}

VARIABLES
    caSent,     \* the requests sent to the CA, in order
    caResult    \* what the last Sign returned

signVars == <<caSent, caResult>>

SignInit ==
    /\ caSent = <<>>
    /\ caResult = [err |-> "", Crt |-> ""]

EnrollProviderSign(req, outcome) ==
    LET signReq == [csr |-> req.CSR, ott |-> provisionerToken]
        httpReq == [body |-> signReq,
                    authorization |-> <<"Bearer ", provisionerToken>>]
    IN /\ caSent' = Append(caSent, httpReq)
       /\ caResult' =
              IF outcome = "send"
              THEN [err |-> "failed to send enrollment request", Crt |-> ""]
              ELSE IF outcome = "status"
              THEN [err |-> "step CA error", Crt |-> ""]
              ELSE IF outcome = "decode"
              THEN [err |-> "failed to decode step CA sign response",
                    Crt |-> ""]
              ELSE [err |-> "", Crt |-> req.CSR]

(***************************************************************************)
(* Part X - the tool registry                                              *)
(***************************************************************************)
\* the goroutines that call the registry (a panic of Add is recovered by
\* its caller, which goes on)
Callers == {"g1", "g2"}
ToolNames == {"n1", "n2"}
\* two different tools may carry the same name
ToolSet == {[name |-> n, impl |-> i] : n \in ToolNames, i \in {"a", "b"}}
NoTool == [name |-> "", impl |-> ""]
NoCaller == "none"

\* New: the empty registry
NewStore == <<>>

Exists_Never(store, name) == FALSE
Exists(store, name) == name \in DOMAIN store

NoCall ==
    [op |-> "none", name |-> "", tool |-> NoTool, before |-> NewStore,
     after |-> NewStore, panicked |-> FALSE, err |-> FALSE, got |-> NoTool,
     done |-> FALSE]

VARIABLES
    tStore,     \* Tools.store
    tWriter,    \* the goroutine holding mu for writing, or NoCaller
    tReaders,   \* the goroutines holding mu for reading
    tPc,        \* where each goroutine is in its call
    tCall,      \* each goroutine's current or last call
    tFirst      \* for each name, the tool of the first Add that stored it

toolVars == <<tStore, tWriter, tReaders, tPc, tCall, tFirst>>

ToolsInit ==
    /\ tStore = NewStore
    /\ tWriter = NoCaller
    /\ tReaders = {}
    /\ tPc = [g \in Callers |-> "idle"]
    /\ tCall = [g \in Callers |-> NoCall]
    /\ tFirst = <<>>

\* Add: t.mu.Lock() and the deferral of Unlock
AddLock(g, tool) ==
    /\ tPc[g] = "idle"
    /\ tWriter = NoCaller /\ tReaders = {}
    /\ tWriter' = g
    /\ tPc' = [tPc EXCEPT ![g] = "addLocked"]
    /\ tCall' = [tCall EXCEPT ![g] = [NoCall EXCEPT !.op = "add",
                                                    !.name = tool.name,
                                                    !.tool = tool,
                                                    !.before = tStore]]
    /\ UNCHANGED <<tStore, tReaders, tFirst>>

\* Add: the test for a registered name, then the panic or the store
AddStore(g) ==
    /\ tPc[g] = "addLocked"
    /\ LET name == tCall[g].name
       IN IF Exists(tStore, name)
          THEN /\ tCall' = [tCall EXCEPT ![g].panicked = TRUE]
               /\ UNCHANGED <<tStore, tFirst>>
          ELSE /\ tStore' = [n \in DOMAIN tStore \cup {name} |->
                                IF n = name THEN tCall[g].tool ELSE tStore[n]]
               /\ tFirst' = IF name \in DOMAIN tFirst THEN tFirst
                            ELSE [n \in DOMAIN tFirst \cup {name} |->
                                     IF n = name THEN tCall[g].tool
                                     ELSE tFirst[n]]
               /\ UNCHANGED tCall
    /\ tPc' = [tPc EXCEPT ![g] = "addDeferred"]
    /\ UNCHANGED <<tWriter, tReaders>>

\* Add: the deferred t.mu.Unlock(), on return and on panic alike
AddUnlock(g) ==
    /\ tPc[g] = "addDeferred"
    /\ tWriter' = NoCaller
    /\ tPc' = [tPc EXCEPT ![g] = "idle"]
    /\ tCall' = [tCall EXCEPT ![g].after = tStore, ![g].done = TRUE]
    /\ UNCHANGED <<tStore, tReaders, tFirst>>

\* Get: t.mu.RLock() and the deferral of RUnlock
GetRLock(g, name) ==
    /\ tPc[g] = "idle"
    /\ tWriter = NoCaller
    /\ tReaders' = tReaders \cup {g}
    /\ tPc' = [tPc EXCEPT ![g] = "getLocked"]
    /\ tCall' = [tCall EXCEPT ![g] = [NoCall EXCEPT !.op = "get",
                                                    !.name = name,
                                                    !.before = tStore]]
    /\ UNCHANGED <<tStore, tWriter, tFirst>>

\* Get: the lookup
GetLookup(g) ==
    /\ tPc[g] = "getLocked"
    /\ LET name == tCall[g].name
           ok == name \in DOMAIN tStore
       IN tCall' = [tCall EXCEPT ![g].err = ~ok,
                                 ![g].got = IF ok THEN tStore[name] ELSE NoTool]
    /\ tPc' = [tPc EXCEPT ![g] = "getDeferred"]
    /\ UNCHANGED <<tStore, tWriter, tReaders, tFirst>>

\* Get: the deferred t.mu.RUnlock()
GetRUnlock(g) ==
    /\ tPc[g] = "getDeferred"
    /\ tReaders' = tReaders \ {g}
    /\ tPc' = [tPc EXCEPT ![g] = "idle"]
    /\ tCall' = [tCall EXCEPT ![g].after = tStore, ![g].done = TRUE]
    /\ UNCHANGED <<tStore, tWriter, tFirst>>

(***************************************************************************)
(* Specifications                                                          *)
(***************************************************************************)
vars ==
    <<deviceVars, assistVars, uploadVars, onboardVars, clientVars,
      middlewareVars, jwtVars, accountVars, signVars, toolVars>>

\* the variables each part of the model leaves alone
notDeviceVars ==
    <<assistVars, uploadVars, onboardVars, clientVars, middlewareVars, jwtVars,
      accountVars, signVars, toolVars>>
notAssistVars ==
    <<deviceVars, uploadVars, onboardVars, clientVars, middlewareVars, jwtVars,
      accountVars, signVars, toolVars>>
notUploadVars ==
    <<deviceVars, assistVars, onboardVars, clientVars, middlewareVars, jwtVars,
      accountVars, signVars, toolVars>>
notOnboardVars ==
    <<deviceVars, assistVars, uploadVars, clientVars, middlewareVars, jwtVars,
      accountVars, signVars, toolVars>>
notClientVars ==
    <<deviceVars, assistVars, uploadVars, onboardVars, middlewareVars, jwtVars,
      accountVars, signVars, toolVars>>

DeviceInit ==
    /\ devices = <<>>
    /\ issued = [d \in ReqDeviceIds |-> {}]
    /\ last = Call("none", "", 0, "", "", "", TRUE, TRUE, devices, issued,
                   FALSE, EmptyResponse(0))
    /\ failedResponses = {}

Init ==
    /\ DeviceInit /\ AssistInit /\ UploadInit /\ OnboardInit /\ ClientInit
    /\ MiddlewareInit /\ JwtInit /\ AccountInit
    /\ SignInit /\ ToolsInit

Register ==
    /\ \E userId \in UserIds, parsable \in BOOLEAN, name \in Names,
          otp \in OTPs, fault \in {"none", "rand", "save"} :
           HandlePostRegisterDevice(userId, parsable, name, otp, fault)
    /\ UNCHANGED notDeviceVars

\* the bodies an enroll request may carry: undecodable, or {csr, otp}
EnrollRequests ==
    {<<FALSE, [csr |-> "", otp |-> ""]>>}
        \cup {<<TRUE, [csr |-> c, otp |-> o]>> : c \in CSRs, o \in ReqOTPs}

EnrollCall ==
    \E userId \in UserIds, deviceId \in ReqDeviceIds,
       req \in EnrollRequests, caOk \in BOOLEAN :
        HandlePostEnrollDevice(userId, deviceId, req[1], req[2], caOk)

Enroll ==
    /\ EnrollCall
    /\ UNCHANGED <<issued, failedResponses>>
    /\ UNCHANGED notDeviceVars

EnrollObserved ==
    /\ EnrollCall
    /\ Observe
    /\ UNCHANGED notDeviceVars

RepoUpdateRow ==
    /\ \E id \in ReqDeviceIds, userId \in Users \cup {Nil},
          otp \in OTPs \cup {Nil}, status_ \in DeviceEnrollmentStates :
           Update(id, userId, otp, status_)
    /\ UNCHANGED notDeviceVars

DeviceNext == Register \/ Enroll \/ RepoUpdateRow

\* the device endpoints together with the repository's Update
SpecDevice == Init /\ [][DeviceNext]_vars

\* the register -> enroll lifecycle as the backend routes it, with the
\* certificates issued and the responses seen by callers recorded
LifecycleNext == Register \/ EnrollObserved

SpecLifecycle == Init /\ [][LifecycleNext]_vars

Start == \E fail \in Failures : HandleAssistStart(fail) /\ UNCHANGED notAssistVars
Cancel == ClientCancel /\ UNCHANGED notAssistVars
Read ==
    /\ \E hasData \in BOOLEAN, err \in {"nil", "EOF", "error"} :
           TtsRead(hasData, err)
    /\ UNCHANGED notAssistVars
ProducerCancelled == TtsCancelled /\ UNCHANGED notAssistVars
ForwarderCancelled == FwdCancelled /\ UNCHANGED notAssistVars
ProducerToForwarder == SpeechChTransfer /\ UNCHANGED notAssistVars
ForwarderSpeechClosed == FwdSpeechClosed /\ UNCHANGED notAssistVars
ForwarderToHandler == ResChTransfer /\ UNCHANGED notAssistVars
HandlerSeesCancel == HandlerCancelled /\ UNCHANGED notAssistVars
HandlerSeesClosed == HandlerStreamClosed /\ UNCHANGED notAssistVars
Write == (\E ok \in BOOLEAN : HandlerWrite(ok)) /\ UNCHANGED notAssistVars
Flush == HandlerFlush /\ UNCHANGED notAssistVars

AssistNext ==
    \/ Start
    \/ Cancel
    \/ Read
    \/ ProducerCancelled
    \/ ForwarderCancelled
    \/ ProducerToForwarder
    \/ ForwarderSpeechClosed
    \/ ForwarderToHandler
    \/ HandlerSeesCancel
    \/ HandlerSeesClosed
    \/ Write
    \/ Flush

\* one voice-assistance request, from HandleAssist's entry to the end of its
\* three tasks
SpecAssist == Init /\ [][AssistNext]_vars


UploadCreate ==
    /\ \E r \in Requests, fail \in {"none", "form", "create"} :
           HandleAssistCreate(r, fail)
    /\ UNCHANGED notUploadVars
UploadCopy ==
    /\ \E r \in Requests, ok \in BOOLEAN : HandleAssistCopy(r, ok)
    /\ UNCHANGED notUploadVars
UploadRead ==
    /\ \E r \in Requests : HandleAssistRead(r)
    /\ UNCHANGED notUploadVars
UploadFinish ==
    /\ \E r \in Requests : HandleAssistFinish(r)
    /\ UNCHANGED notUploadVars
ClockTick == Tick /\ UNCHANGED notUploadVars

UploadNext ==
    \/ ClockTick
    \/ UploadCreate
    \/ UploadCopy
    \/ UploadRead
    \/ UploadFinish

\* two voice-assistance requests served concurrently, each from its upload
\* to the removal of its temporary file
SpecUpload == Init /\ [][UploadNext]_vars

Cancelled == CancelCtx /\ UNCHANGED notOnboardVars
Returned == RunReturn /\ UNCHANGED notOnboardVars
Panic == SendOnClosedChannel /\ UNCHANGED notOnboardVars
WakeLoop == RecordUponWakeLoop /\ UNCHANGED notOnboardVars
WakeSignal == WakeChTransfer /\ UNCHANGED notOnboardVars
Record ==
    /\ \E ok \in BOOLEAN : RecordAudio(ok)
    /\ UNCHANGED notOnboardVars
HandOverRecording == RecordChTransfer /\ UNCHANGED notOnboardVars
ListenStart ==
    /\ \E ok \in BOOLEAN : ListenInit(ok)
    /\ UNCHANGED notOnboardVars
ListenLoop == ListenSelect /\ UNCHANGED notOnboardVars
ListenDetect ==
    /\ \E outcome \in {"none", "keyword"} : ListenFrame(outcome)
    /\ UNCHANGED notOnboardVars
FileCancelled == FileTaskCancelled /\ UNCHANGED notOnboardVars
FileClosed == FileTaskRecordChClosed /\ UNCHANGED notOnboardVars
Save ==
    /\ \E outcome \in {"ok", "createError", "saveError"} : FileTaskSave(outcome)
    /\ UNCHANGED notOnboardVars
HandOverPath == FpChTransfer /\ UNCHANGED notOnboardVars
UploadCancelled == UploadTaskCancelled /\ UNCHANGED notOnboardVars
UploadClosed == UploadTaskFpChClosed /\ UNCHANGED notOnboardVars
Upload ==
    /\ \E outcome \in {"ok", "openError", "assistError"}, replies \in 0..MaxReplies :
           UploadTaskAssist(outcome, replies)
    /\ UNCHANGED notOnboardVars
Receive ==
    /\ \E readOk \in BOOLEAN : UploadTaskReceive(readOk)
    /\ UNCHANGED notOnboardVars
PlayerStart ==
    /\ \E ok \in BOOLEAN : PlaybackStreamInit(ok)
    /\ UNCHANGED notOnboardVars
PlayerCancelled == PlaybackStreamCancelled /\ UNCHANGED notOnboardVars
Play == StreamChTransfer /\ UNCHANGED notOnboardVars

OnboardNext ==
    \/ Cancelled
    \/ Returned
    \/ Panic
    \/ WakeLoop
    \/ WakeSignal
    \/ Record
    \/ HandOverRecording
    \/ ListenStart
    \/ ListenLoop
    \/ ListenDetect
    \/ FileCancelled
    \/ FileClosed
    \/ Save
    \/ HandOverPath
    \/ UploadCancelled
    \/ UploadClosed
    \/ Upload
    \/ Receive
    \/ PlayerStart
    \/ PlayerCancelled
    \/ Play

\* the device's interaction loop from the start of Run
SpecOnboard == Init /\ [][OnboardNext]_vars

\* every goroutine that can take a step eventually takes one; the caller's
\* cancellation of ctx is not forced
OnboardFairness ==
    /\ WF_vars(Returned)
    /\ WF_vars(Panic)
    /\ WF_vars(WakeLoop)
    /\ WF_vars(WakeSignal)
    /\ WF_vars(Record)
    /\ WF_vars(HandOverRecording)
    /\ WF_vars(ListenStart)
    /\ WF_vars(ListenLoop)
    /\ WF_vars(ListenDetect)
    /\ WF_vars(FileCancelled)
    /\ WF_vars(FileClosed)
    /\ WF_vars(Save)
    /\ WF_vars(HandOverPath)
    /\ WF_vars(UploadCancelled)
    /\ WF_vars(UploadClosed)
    /\ WF_vars(Upload)
    /\ WF_vars(Receive)
    /\ WF_vars(PlayerStart)
    /\ WF_vars(PlayerCancelled)
    /\ WF_vars(Play)

SpecOnboardFair == SpecOnboard /\ OnboardFairness

ContextCancelled == RvaCancel /\ UNCHANGED notClientVars
ClientRead ==
    /\ \E hasData \in BOOLEAN, err \in {"nil", "EOF", "error"} :
           RvaRead(hasData, err)
    /\ UNCHANGED notClientVars
ClientDeliver == RvaChTransfer /\ UNCHANGED notClientVars
ConsumerNext == RvaConsumerNext /\ UNCHANGED notClientVars
ConsumerStops == RvaConsumerStops /\ UNCHANGED notClientVars

ClientNext ==
    \/ ContextCancelled
    \/ ClientRead
    \/ ClientDeliver
    \/ ConsumerNext
    \/ ConsumerStops

\* one response stream of ReceiveVoiceAssistance and its consumer
SpecClient == Init /\ [][ClientNext]_vars

RegisterRoute ==
    /\ \E req \in RouteRequests(PostRegisterDeviceURL),
          parsable \in BOOLEAN, name \in Names, otp \in OTPs,
          fault \in {"none", "rand", "save"} :
           ServeRegisterDevice(req, parsable, name, otp, fault)
    /\ UNCHANGED <<assistVars, uploadVars, onboardVars, clientVars, jwtVars,
                   accountVars, signVars, toolVars>>
VoiceAssistanceRoute ==
    /\ \E req \in RouteRequests(PostReceiveVoiceAssistance),
          fail \in Failures :
           ServeVoiceAssistance(req, fail)
    /\ UNCHANGED <<deviceVars, uploadVars, onboardVars, clientVars, jwtVars,
                   accountVars, signVars, toolVars>>
LibraryRoute ==
    /\ \E route \in LibraryRoutes :
           \E req \in RouteRequests(route) : ServeLibraryRoute(route, req)
    /\ UNCHANGED <<deviceVars, assistVars, uploadVars, onboardVars,
                   clientVars, jwtVars, accountVars, signVars, toolVars>>

RoutesNext ==
    \/ RegisterRoute
    \/ VoiceAssistanceRoute
    \/ LibraryRoute

\* requests served one after the other through the middleware chains
SpecRoutes == Init /\ [][RoutesNext]_vars

notJwtVars ==
    <<deviceVars, assistVars, uploadVars, onboardVars, clientVars,
      middlewareVars, accountVars, signVars, toolVars>>

Generate ==
    /\ \E key \in Keys, id \in Users, expires \in ExpiresGiven :
           JwtGenerate(key, [ID |-> id, Email |-> "a@x.io",
                             Expires |-> expires])
    /\ UNCHANGED notJwtVars
TamperToken == (\E kind \in Tamperings : JwtTamper(kind)) /\ UNCHANGED notJwtVars
Parse ==
    /\ \E key \in Keys, now \in ParseTimes : JwtParse(key, now)
    /\ UNCHANGED notJwtVars

JwtNext ==
    \/ Generate
    \/ TamperToken
    \/ Parse

\* tokens generated, altered and parsed
SpecJwt == Init /\ [][JwtNext]_vars

notAccountVars ==
    <<deviceVars, assistVars, uploadVars, onboardVars, clientVars,
      middlewareVars, jwtVars, signVars, toolVars>>

SignupBodies ==
    {[parsable |-> FALSE, Email |-> "", Password |-> "", PasswordRepeat |-> ""]}
    \cup {[parsable |-> TRUE, Email |-> e, Password |-> p, PasswordRepeat |-> r] :
              e \in SignupEmails, p \in ReqPasswords, r \in ReqPasswords}
LoginBodies ==
    {[parsable |-> FALSE, Email |-> "", Password |-> ""]}
    \cup {[parsable |-> TRUE, Email |-> e, Password |-> p] :
              e \in ReqEmails, p \in ReqPasswords}

Signup ==
    /\ \E body \in SignupBodies, fault \in SignupFaults :
           /\ body.PasswordRepeat \in {body.Password, "password2"}
           /\ HandleSignup(body, fault)
    /\ UNCHANGED notAccountVars
ExternalLogin ==
    /\ \E email \in ExternalEmails, fault \in {"none", "find", "save"} :
           FindOrCreateUser(email, fault)
    /\ UNCHANGED notAccountVars
Login ==
    /\ \E body \in LoginBodies, fault \in LoginFaults : HandleLogin(body, fault)
    /\ UNCHANGED notAccountVars

AccountNext ==
    \/ Signup
    \/ ExternalLogin
    \/ Login

\* accounts created and logged into
SpecAccounts == Init /\ [][AccountNext]_vars

notSignVars ==
    <<deviceVars, assistVars, uploadVars, onboardVars, clientVars,
      middlewareVars, jwtVars, accountVars, toolVars>>

SignCsr ==
    /\ Len(caSent) < MaxSigns
    /\ \E csr \in SignCSRs, outcome \in SignOutcomes :
           EnrollProviderSign([CSR |-> csr], outcome)
    /\ UNCHANGED notSignVars

SignNext == SignCsr

\* certificate signing requests sent to the CA
SpecSign == Init /\ [][SignNext]_vars

notToolVars ==
    <<deviceVars, assistVars, uploadVars, onboardVars, clientVars,
      middlewareVars, jwtVars, accountVars, signVars>>

AddBegins ==
    /\ \E g \in Callers, tool \in ToolSet : AddLock(g, tool)
    /\ UNCHANGED notToolVars
AddStores == (\E g \in Callers : AddStore(g)) /\ UNCHANGED notToolVars
AddReturns == (\E g \in Callers : AddUnlock(g)) /\ UNCHANGED notToolVars
GetBegins ==
    /\ \E g \in Callers, name \in ToolNames : GetRLock(g, name)
    /\ UNCHANGED notToolVars
GetLooksUp == (\E g \in Callers : GetLookup(g)) /\ UNCHANGED notToolVars
GetReturns == (\E g \in Callers : GetRUnlock(g)) /\ UNCHANGED notToolVars

ToolsNext ==
    \/ AddBegins
    \/ AddStores
    \/ AddReturns
    \/ GetBegins
    \/ GetLooksUp
    \/ GetReturns

\* goroutines adding tools to the registry and getting them
SpecTools == Init /\ [][ToolsNext]_vars

(***************************************************************************)
(* Part I - claims                                                         *)
(***************************************************************************)
\* an EnrollDevice call was the last operation (the body was decodable, so
\* the handler reached the service)
EnrollCalled == last.op = "enroll" /\ last.parsable

\* the call recorded in last returned an error and did not reach the signer
LastRejected == last.resp.status # StatusOK /\ ~last.signed

\* C1: an EnrollDevice call on an existing device owned by the given user
\* whose request OTP differs from the stored OTP returns an error and does
\* not invoke the CA signer.
C1_WrongOTPNeverSigned ==
    (/\ EnrollCalled
     /\ last.found
     /\ last.pre.user = last.userId
     /\ last.otp # last.pre.otp)
        => LastRejected

\* C2: for a device created by RegisterDevice and still in state created,
\* EnrollDevice with the owning user id and the stored OTP succeeds: the CA
\* signer is invoked with the CSR and its signed chain is returned.
C2_MatchingOTPEnrolls ==
    (/\ EnrollCalled
     /\ last.found
     /\ last.pre.status = DeviceEnrollmentStateCreated
     /\ last.pre.user = last.userId
     /\ last.pre.otp \in OTPs
     /\ last.otp = last.pre.otp)
        => /\ last.signed
           /\ last.caOk =>
                 /\ last.resp.status = StatusOK
                 /\ last.resp.crt = [csr |-> last.csr, cn |-> last.deviceId]

\* C3: in every state of the register/enroll lifecycle a device is enrolled
\* iff the CA has signed a certificate for it, and created iff its OTP is
\* present and no certificate has been issued.
C3_StateTracksCertificate ==
    \A d \in DOMAIN devices :
        /\ devices[d].status = DeviceEnrollmentStateEnrolled
               <=> issued[d] # {}
        /\ devices[d].status = DeviceEnrollmentStateCreated
               <=> (devices[d].otp # "" /\ issued[d] = {})

\* C4: the OTP is single-use: once an EnrollDevice call has succeeded for a
\* device, a later EnrollDevice call for that device presenting the same OTP
\* fails and does not invoke the CA signer.
C4_OTPSingleUse ==
    (EnrollCalled /\ last.reuse) => LastRejected

\* C5: EnrollDevice is rejected whenever the stored OTP is absent (empty in
\* the persisted row), whatever OTP the request carries, and the CA signer is
\* not invoked.
C5_AbsentOTPRejected ==
    (EnrollCalled /\ last.found /\ last.pre.otp = "") => LastRejected

\* C6: EnrollDevice on a device whose enrollment state is not created fails
\* and does not invoke the CA signer.
C6_NotCreatedRejected ==
    (/\ EnrollCalled
     /\ last.found
     /\ last.pre.status # DeviceEnrollmentStateCreated)
        => LastRejected

\* C7: EnrollDevice with a user id different from the device's owner, or on
\* a device that has no owner, fails, does not invoke the CA signer, and
\* leaves the device record unchanged.
C7_WrongUserRejected ==
    (/\ EnrollCalled
     /\ last.found
     /\ last.pre.user # last.userId)
        => /\ last.resp = EmptyResponse(StatusInternalServerError)
           /\ ~last.signed
           /\ devices[last.deviceId] = last.pre

\* C7 witness: an enroll call naming a user other than the device's owner,
\* with an OTP that differs from the stored one and a CA that would sign (so
\* that only the ownership check stands between the call and the signer)
C7_Witness ==
    /\ EnrollCalled
    /\ last.found
    /\ last.pre.user \in Users \ {last.userId}
    /\ last.otp # last.pre.otp
    /\ last.caOk
    /\ last.resp.status = StatusInternalServerError

\* the other case of C7: the same call on a device that has no owner
C7_NoOwnerCase ==
    /\ EnrollCalled
    /\ last.found
    /\ last.pre.user = Nil
    /\ last.otp # last.pre.otp
    /\ last.caOk
    /\ last.resp.status = StatusInternalServerError

\* C8: the response of the enroll endpoint is identical for every failed
\* precondition (missing device, device of another user, wrong OTP).
C8_FailuresIndistinguishable ==
    Cardinality(failedResponses) <= 1

\* C9: RegisterDevice for an existing user persists one new device with state
\* created, the given owner, the given name and a generated OTP, and the
\* endpoint returns the new device id and that same OTP; for a user that does
\* not exist it fails and persists no device.
C9_RegisterPersistsAndReturnsOTP ==
    (last.op = "register" /\ last.parsable) =>
        /\ last.resp.status = StatusOK =>
              /\ Cardinality(DOMAIN devices) = last.rows + 1
              /\ last.resp.deviceId \in DOMAIN devices
              /\ LET row == devices[last.resp.deviceId]
                 IN /\ row.status = DeviceEnrollmentStateCreated
                    /\ row.user = last.userId
                    /\ row.name = last.name
                    /\ row.otp \in OTPs
                    /\ last.resp.otp = row.otp
        /\ last.userId \notin Users =>
              /\ last.resp.status # StatusOK
              /\ Cardinality(DOMAIN devices) = last.rows

(***************************************************************************)
(* Part II - claims                                                        *)
(***************************************************************************)
IsPrefix(s, t) == Len(s) <= Len(t) /\ \A i \in 1..Len(s) : s[i] = t[i]

\* C10: for an Assist invocation that is not cancelled and whose consumer
\* keeps receiving, the result channel yields exactly the chunks the TTS
\* producer emitted, in producer order: at any moment what the consumer has
\* received is a prefix of what the producer emitted, lagging by at most the
\* one chunk the forwarder holds, and once the consumer has seen the channel
\* closed it has received all of them.
C10_ResultChannelFIFO ==
    ~reqCancelled =>
        /\ IsPrefix(received, emitted)
        /\ Len(emitted) <= Len(received) + 1
        /\ hExit = "closed" => (ttsPc = "done" /\ received = emitted)

\* C10 witness: an uncancelled request whose consumer saw the result channel
\* closed after the producer emitted several chunks
C10_Witness ==
    /\ ~reqCancelled
    /\ hExit = "closed"
    /\ Len(emitted) >= 2
    /\ received = emitted

\* C11: the result channel returned by Assist is closed exactly once, by the
\* forwarder when it terminates, and no chunk is sent on it after the close:
\* whatever the interleaving of the producer closing speechCh and the context
\* being cancelled, close(resCh) never runs twice, it has run iff the
\* forwarder is done, and afterwards the consumer receives nothing more.
C11_ResultChannelClosedOnce ==
    /\ [](resClosed <= 1)
    /\ [](fwdPc = "done" <=> resClosed = 1)
    /\ [][resClosed = 1 => (resClosed' = 1 /\ received' = received)]_vars

\* C11 witness: the result channel was closed after chunks went through it,
\* with both the producer's channel closed and the request context cancelled
C11_Witness ==
    /\ resClosed = 1
    /\ speechClosed = 1
    /\ reqCancelled
    /\ Len(received) >= 1

\* C12: once the caller's context is cancelled the forwarder terminates and
\* closes the result channel, also when the consumer has stopped receiving:
\* a cancelled pipeline that has come to rest (no step of the handler, the
\* producer or the forwarder is possible) has a forwarder that is done and a
\* closed result channel.
C12_ForwarderTerminatesOnCancel ==
    (/\ reqCancelled
     /\ fwdPc # "idle"
     /\ ~ENABLED AssistNext)
        => (fwdPc = "done" /\ resClosed = 1)

\* the stages of Assist, in the order the pipeline runs them
PipelineStages == <<"transcribe", "complete", "speech">>

C14_WritesInOrderFlushEach ==
    /\ IsPrefix(bodyOut, received)
    /\ Len(received) <= Len(bodyOut) + 1
    /\ hPc = "select" => (bodyOut = received /\ flushedLen = Len(bodyOut))
    /\ hPc = "write" => (hMsg = received[Len(received)]
                         /\ flushedLen = Len(bodyOut))
    /\ (hExit = "closed" /\ ~reqCancelled) => bodyOut = emitted

\* C14 witness: a cooperative client got several chunks, each one flushed,
\* and the handler returned on the closed result channel
C14_Witness ==
    /\ hExit = "closed"
    /\ ~reqCancelled
    /\ Len(bodyOut) >= 2
    /\ bodyOut = emitted
    /\ flushedLen = Len(bodyOut)

\* C15: if the request context is cancelled after the caller received k
\* chunks, the pipeline stops within one chunk boundary: the producer emits at
\* most one more chunk (the one in flight) after the cancellation, and once
\* the cancelled pipeline is at rest the producer has closed the upstream
\* body and its output channel.
C15_StopsWithinOneChunk ==
    /\ reqCancelled => Len(emitted) <= emittedAtCancel + 1
    /\ (reqCancelled /\ ttsPc # "idle" /\ ~ENABLED AssistNext)
           => (ttsPc = "done" /\ speechClosed = 1 /\ bodyClosed = 1)

\* the part of C15 the code keeps: once a cancelled pipeline is at rest the
\* producer has closed the upstream body and its output channel, each once
C15_ProducerClosesOnCancel ==
    /\ speechClosed <= 1
    /\ bodyClosed <= 1
    /\ (reqCancelled /\ ttsPc # "idle" /\ ~ENABLED AssistNext)
           => (ttsPc = "done" /\ speechClosed = 1 /\ bodyClosed = 1)

(***************************************************************************)
(* Part III - claims                                                       *)
(***************************************************************************)
\* the request holds an open temporary file
InFlight(r) == rPc[r] \in {"created", "copied", "read"}

\* C16: two concurrent assistant requests share no state: the temporary file
\* of a request in flight is used by no other request in flight (neither its
\* path nor the file behind it), its path is not removed or replaced under
\* it, and what it copied there is neither truncated nor overwritten, so the
\* pipeline reads the request's own upload.
C16_RequestsShareNoTempFile ==
    \A r \in Requests :
        InFlight(r) =>
            /\ \A q \in Requests \ {r} :
                   InFlight(q) => (rPath[q] # rPath[r] /\ rFile[q] # rFile[r])
            /\ dir[rPath[r]] = rFile[r]
            /\ rPc[r] \in {"copied", "read"} => inode[rFile[r]] = r
            /\ rPc[r] = "read" => rHeard[r] = r

\* requests that arrive in different seconds do not interfere
C16_DistinctSecondsIsolated ==
    \A r \in Requests :
        (InFlight(r) /\ \A q \in Requests \ {r} : rPath[q] # rPath[r]) =>
            /\ dir[rPath[r]] = rFile[r]
            /\ rPc[r] \in {"copied", "read"} => inode[rFile[r]] = r
            /\ rPc[r] = "read" => rHeard[r] = r

(***************************************************************************)
(* Part IV - claims                                                        *)
(***************************************************************************)
\* neither the ctx passed to Run nor ctxWithCancel has been cancelled
NotCancelled == ~ctxCancelled /\ ~cancelRun

\* a Listen goroutine is running
Listening == lPc \in {"init", "select", "frame", "sendWake"}

\* a recording is being written, uploaded or played
InteractionInProgress ==
    \/ fPc \in {"save", "sendPath"}
    \/ uPc \in {"open", "inner", "sendStream"}

\* the task has returned, or the process has ended
Terminated(pc) == pc \in {"done", "crashed"}

\* C17: on the device no new wake event is accepted (the wake listener is not
\* started again) until the previous interaction, its upload and playback
\* included, has terminated or been cancelled: without cancellation a Listen
\* goroutine never runs while a recording is being written, uploaded or
\* played.
C17_NoWakeDuringInteraction ==
    (NotCancelled /\ Listening) => ~InteractionInProgress

\* C18: the interaction loop is endless: with no failure and no cancellation
\* none of the wake/record, file and upload/playback tasks ever terminates,
\* so that every later wake detection can have its recording uploaded and
\* the reply played as the first one had.
C18_InteractionLoopEndless ==
    (NotCancelled /\ ~failed) =>
        /\ wPc # "done"
        /\ fPc # "done"
        /\ uPc # "done"
        /\ \A n \in uploaded : n \in 1..wakes

\* C19: after the ctx passed to Run is cancelled every task started by Run
\* (wake/record with its listener, file writer, upload/playback, player)
\* eventually observes the cancellation and terminates.
C19_AllTasksTerminateOnCancel ==
    ctxCancelled ~>
        (/\ Terminated(wPc)
         /\ lPc \in {"idle", "crashed"}
         /\ Terminated(fPc)
         /\ Terminated(uPc)
         /\ pPc \in {"idle", "done", "crashed"})

\* C20: Listen blocks until the wake word is detected or its ctx is
\* cancelled, and when the ctx is cancelled it returns instead of continuing
\* to run: it returns nil only after a detection, and once it has taken its
\* case <-ctx.Done() it is no longer in its detection loop.
C20_ListenReturnsOnCancel ==
    /\ (lPc = "sendWake" /\ lResult = "nil") => wakes >= 1
    /\ sawDone => lPc \notin {"select", "frame"}

\* the part of C20 the code keeps: Listen returns nil only after a
\* detection, and after it has seen the cancellation it detects nothing more
C20_NoDetectionAfterCancel ==
    /\ (lPc = "sendWake" /\ lResult = "nil") => wakes >= 1
    /\ [][sawDone => wakes' = wakes]_vars

\* C21: when a non-recoverable failure occurs in the wake/record stage (the
\* wake detector fails to initialise, or recording finds no input device),
\* Run terminates and returns a non-nil error that identifies the failure:
\* once Run has returned after recordUponWake failed that way, what it
\* returned is that error.
C21_RunReturnsWakeRecordError ==
    (wErr \in {"listen", "record"} /\ mPc = "returned") => runResult = wErr

\* the part of C21 the code keeps: after such a failure Run does return
C21_RunTerminatesOnFailure ==
    (wErr \in {"listen", "record"}) ~> (mPc \in {"returned", "crashed"})

\* C22: after a recoverable failure in one interaction (the assistant request
\* fails, or reading one response chunk fails) the orchestrator keeps
\* running: without cancellation none of its three tasks has terminated, so
\* the next wake event can again be recorded, uploaded and played.
C22_RecoversFromInteractionFailure ==
    (NotCancelled /\ uErr \in {"assist", "read"}) =>
        /\ wPc # "done"
        /\ fPc # "done"
        /\ uPc # "done"

\* C23: every temporary recording file the orchestrator creates is removed
\* by the time its interaction ends, whether playback completed, failed or
\* was cancelled: a recording file exists only while the file task or the
\* upload task is still working on that recording.
C23_RecordingFilesRemoved ==
    \A n \in recFiles :
        \/ fRec = n /\ fPc \in {"save", "sendPath"}
        \/ uRec = n /\ uPc \in {"open", "inner", "sendStream"}

\* C24: if any one of the orchestrator's tasks fails, all the other tasks
\* observe cancellation: an upload task that returned on an error has
\* triggered the cancellation, and once cancel() has been called by the
\* wake/record task or the file task, an upload in progress and a playback
\* in progress can take their ctx.Done() case.
C24_FailureCancelsAllTasks ==
    /\ uErr # "" => cancelRun
    /\ cancelRun =>
          /\ uPc = "inner" => ENABLED UploadCancelled
          /\ pPc = "select" => ENABLED PlayerCancelled

\* C25: the playback task started for an interaction terminates once the
\* assistant's result sequence has ended, and the upload task never blocks
\* forever handing a chunk to a player that has returned: when the upload
\* task has returned, a player still waiting on its stream can take a step
\* (the stream is closed or cancelled), and the upload task is never at its
\* send to a player that is gone.
C25_PlaybackEndsWithInteraction ==
    /\ (uPc = "done" /\ pPc = "select") => ENABLED (PlayerCancelled \/ Play)
    /\ ~(uPc = "sendStream" /\ pPc = "done")

(***************************************************************************)
(* Part V - claims                                                         *)
(***************************************************************************)
\* C26: the channel returned by ReceiveVoiceAssistance is eventually closed
\* and the response body released, when the stream ends and when the context
\* is cancelled, also when the consumer has stopped receiving; until then it
\* delivers the bytes in the order read with none lost: what was delivered is
\* a prefix of what was read, a reader that returned while its consumer was
\* still receiving delivered everything, and a cancelled stream that has
\* come to rest has a reader that returned with channel and body closed.
C26_ClientStreamClosedAndOrdered ==
    /\ IsPrefix(rvaDelivered, rvaReadLog)
    /\ (rvaPc = "done" /\ ~rvaCtxDone) => rvaDelivered = rvaReadLog
    /\ (rvaCtxDone /\ ~ENABLED ClientNext) =>
           (rvaPc = "done" /\ rvaChClosed = 1 /\ rvaBodyClosed = 1)

\* the part of C26 the code keeps: order and completeness of delivery, and
\* channel and body closed exactly once when the reader returns
C26_DeliveryInOrder ==
    /\ IsPrefix(rvaDelivered, rvaReadLog)
    /\ (rvaPc = "done" /\ ~rvaCtxDone) => rvaDelivered = rvaReadLog
    /\ rvaChClosed = (IF rvaPc = "done" THEN 1 ELSE 0)
    /\ rvaBodyClosed = rvaChClosed

(***************************************************************************)
(* Part VI - claims                                                        *)
(***************************************************************************)
\* the request served last came without a usable credential for the
\* authentication of its route
TokenVerifies(t) ==
    t.wellFormed /\ t.alg = "HS256" /\ t.sigOk /\ ~t.expired
CredentialInvalid ==
    IF mwRoute.middlewares[1].af = "WithJWT"
    THEN \/ Len(mwReq.authorization) = 0
         \/ mwReq.authorization[1] # "Bearer "
         \/ ~TokenVerifies(mwReq.authorization[2])
    ELSE mwReq.cert.empty \/ ~mwReq.cert.pem \/ ~mwReq.cert.der

\* C27: on every route wrapped with Authenticated, a request whose credential
\* is missing or invalid (no Authorization header, no `Bearer ` prefix, a
\* token that fails verification; a missing, non-PEM or unparsable
\* certificate header) is answered 401, and nothing but the authentication
\* func was invoked: no authorization predicate and no handler.
C27_InvalidCredentialAnswers401 ==
    (mwRoute # NoRoute /\ CredentialInvalid) =>
        /\ mwStatus = StatusUnauthorized
        /\ mwTrace = <<mwRoute.middlewares[1].af>>

\* a token with a signature that does not verify was answered 401
C27_Witness ==
    /\ mwRoute = PostRegisterDeviceURL
    /\ Len(mwReq.authorization) = 2
    /\ mwReq.authorization[1] = "Bearer "
    /\ ~mwReq.authorization[2].sigOk
    /\ mwStatus = StatusUnauthorized

\* the predicates of the route served last, and whether one of them rejects
\* the request under the context authentication produced
AuthzFns == mwRoute.middlewares[2].fns
Param(fn) == IF fn.param \in mwRoute.pattern THEN mwReq.path[fn.param] ELSE ""
PredicateFails(fn) ==
    IF fn.name = "HavingDeviceID"
    THEN \/ ~mwContext.device.present
         \/ Param(fn) = ""
         \/ Param(fn) # mwContext.device.id
    ELSE \/ ~mwContext.principal.present
         \/ fn.name = "WithUserId" /\ Param(fn) = ""
         \/ fn.name = "WithUserId" /\ Param(fn) # mwContext.principal.id
         \/ fn.name = "WithRoles" /\ "ROLE_USER" \notin fn.roles
FailingFns == {i \in 1..Len(AuthzFns) : PredicateFails(AuthzFns[i])}
FirstFailing == CHOOSE i \in FailingFns : \A j \in FailingFns : i <= j
FnNames(n) == [i \in 1..n |-> AuthzFns[i].name]

\* C28: on every route wrapped with Authenticated followed by Authorized,
\* the authentication func is invoked first and the predicates only after it
\* succeeded, in the given order; the first predicate that fails (missing
\* principal, missing path parameter, mismatch) yields 403 and neither a
\* later predicate nor the handler is invoked; the handler runs only if
\* every predicate passed.
C28_PredicatesInOrderFirstFailure403 ==
    mwRoute # NoRoute =>
        /\ mwTrace[1] = mwRoute.middlewares[1].af
        /\ mwStatus = StatusUnauthorized => Len(mwTrace) = 1
        /\ mwStatus # StatusUnauthorized =>
               IF FailingFns = {}
               THEN /\ mwTrace = <<mwRoute.middlewares[1].af>>
                                     \o FnNames(Len(AuthzFns))
                                     \o <<"handler">>
                    /\ mwStatus # StatusForbidden
               ELSE /\ mwTrace = <<mwRoute.middlewares[1].af>>
                                     \o FnNames(FirstFailing)
                    /\ mwStatus = StatusForbidden

\* the first of two predicates passed, the second failed: 403, no handler
C28_Witness ==
    /\ mwRoute \in LibraryRoutes
    /\ mwTrace = <<"WithJWT", "WithUserId", "WithRoles">>
    /\ mwStatus = StatusForbidden

\* C29: a request to the device-registration route reaches RegisterDevice
\* only when the userId path parameter equals the id of the authenticated
\* principal, and registers for that user; a valid token of one user on
\* another user's path is answered 403 and no device row is added or
\* changed.
C29_RegisterOnlyOwnUser ==
    mwRoute = PostRegisterDeviceURL =>
        /\ "handler" \in {mwTrace[i] : i \in 1..Len(mwTrace)} =>
               /\ mwContext.principal.present
               /\ mwReq.path["userId"] = mwContext.principal.id
               /\ last.op = "register"
               /\ last.userId = mwContext.principal.id
        /\ ( /\ Len(mwReq.authorization) = 2
             /\ mwReq.authorization[1] = "Bearer "
             /\ TokenVerifies(mwReq.authorization[2])
             /\ mwReq.path["userId"] # mwReq.authorization[2].id ) =>
               /\ mwStatus = StatusForbidden
               /\ devices = mwDevices

\* u1's valid token on u2's path was answered 403
C29_Witness ==
    /\ mwRoute = PostRegisterDeviceURL
    /\ Len(mwReq.authorization) = 2
    /\ mwReq.authorization[1] = "Bearer "
    /\ TokenVerifies(mwReq.authorization[2])
    /\ mwReq.authorization[2].id = "u1"
    /\ mwReq.path["userId"] = "u2"
    /\ mwStatus = StatusForbidden
    /\ devices = mwDevices

\* a registration that went through: the path names the principal
C29_RegisteredWitness ==
    /\ mwRoute = PostRegisterDeviceURL
    /\ mwStatus = StatusOK
    /\ devices # mwDevices

\* C30: a POST to the voice-assistance route with a parsable certificate of
\* common name D that names device D in the deviceId query parameter passes
\* authentication and the device-matches-path authorization and reaches the
\* assistant handler.
C30_DeviceReachesAssistant ==
    ( /\ mwRoute = PostReceiveVoiceAssistance
      /\ mwReq.cert.der
      /\ mwReq.query = mwReq.cert.cn ) =>
        /\ mwStatus \notin {StatusUnauthorized, StatusForbidden}
        /\ mwTrace = <<"WithDeviceCertHeader", "HavingDeviceID", "handler">>

\* what the code does on the voice-assistance route: every request with a
\* parsable certificate is answered 403, whatever device it names
C30_VoiceRouteAlwaysForbidden ==
    (mwRoute = PostReceiveVoiceAssistance /\ mwReq.cert.der) =>
        /\ mwStatus = StatusForbidden
        /\ hPc = "start"

\* C38: in Run and its tasks no value is sent on a closed channel: once Run
\* has returned and closed recordCh and fpCh, no task is blocked in a send
\* on either channel, and no send-on-closed-channel panic happens.
C38_NoSendOnClosedChannel ==
    /\ ~(wPc = "sendRec" /\ recordChClosed)
    /\ ~(fPc = "sendPath" /\ fpChClosed)
    /\ mPc # "crashed"

\* C39: the TTS producer forwards every byte it reads: when it has closed
\* its output channel without having been cancelled, every non-empty read of
\* the response body, the one that came with EOF or an error included, was
\* emitted as a chunk.
C39_ProducerForwardsEveryRead ==
    (ttsPc = "done" /\ speechClosed = 1 /\ ~CtxDone) => emitted = readLog

(***************************************************************************)
(* Part VII - claims                                                       *)
(***************************************************************************)
\* the token parsed last is the one GenerateJWT made, given to ParseJWT with
\* the key it was signed with, before its expiry
Genuine == jwtTampering = "" /\ jwtParseKey = jwtSignKey
ExpiryOf(claims) ==
    IF claims.Expires = ZeroTime THEN IssueTime + tokenValidity
    ELSE claims.Expires

\* C31: ParseJWT accepts a token if and only if it is well-formed, signed
\* with HS256 under the given key and not expired; a token with another
\* algorithm, with a signature that does not verify (wrong key, altered
\* signature or claims), an expired or a malformed token is rejected; and
\* the ID returned for an accepted token is the ID given to GenerateJWT.
C31_ParseAcceptsExactlyValidTokens ==
    jwtParsed # NotParsed =>
        /\ ~jwtParsed.err <=> (Genuine /\ jwtNow < ExpiryOf(jwtClaims))
        /\ ~jwtParsed.err => jwtParsed.ID = jwtClaims.ID

\* an HS384 token signed with the right key, parsed before expiry, was
\* rejected
C31_Witness ==
    /\ jwtTampering = "HS384"
    /\ jwtParseKey = jwtSignKey
    /\ jwtNow < jwtTs.exp
    /\ jwtParsed # NotParsed
    /\ jwtParsed.err

\* a genuine token parsed at its expiry instant was rejected, and one parsed
\* an instant earlier accepted
C31_ExpiryWitness ==
    /\ Genuine
    /\ jwtNow = jwtTs.exp
    /\ jwtParsed # NotParsed
    /\ jwtParsed.err

(***************************************************************************)
(* Part VIII - claims                                                      *)
(***************************************************************************)
\* a local login was the last request and it was answered 200
LoginSucceeded == acctLast.op = "login" /\ acctLast.status = StatusOK

\* the row of the user the last login named
LoginRow == acctUsers[ToLower(acctLast.body.Email)]

\* the principal the bearer scheme builds from the token of the last login
LoginPrincipal ==
    NewUserPrincipal(ParseJWT(TokenAt(acctLast.token, JWTKey, IssueTime)))

\* C32: the token issued by a successful local login authenticates, under
\* the bearer scheme, to a principal whose id is the user's id and whose
\* email is the user's email address
C32_LoginTokenCarriesIdAndEmail ==
    LoginSucceeded =>
        /\ ~ParseJWT(TokenAt(acctLast.token, JWTKey, IssueTime)).err
        /\ LoginPrincipal.ID = LoginRow.ID
        /\ LoginPrincipal.Email = LoginRow.Email

\* the limits the login and signup schemas state for their fields
ValidAddress(e) == IsEmail(e) /\ Len(e) >= 5 /\ Len(e) <= 254
ValidPassword(p) == Len(p) >= 8 /\ Len(p) <= 128

\* the last request was a local login; its credentials, and what the users
\* table held for them
LoginServed == acctLast.op = "login"
LoginBodyValid ==
    /\ acctLast.body.parsable
    /\ ValidAddress(acctLast.body.Email)
    /\ ValidPassword(acctLast.body.Password)
LoginEmailKnown ==
    acctLast.body.parsable /\ ToLower(acctLast.body.Email) \in DOMAIN acctUsers
LoginUserLocal == LoginEmailKnown /\ LoginRow.Provider = LocalProvider
LoginPasswordMatches ==
    /\ LoginUserLocal
    /\ CompareHashAndPassword(LoginRow.PasswordHash, acctLast.body.Password)

\* the 404 answers of a well-formed login, and the conditions of a 200
C33_NotFoundAndSuccess ==
    LoginServed =>
        /\ (LoginBodyValid /\ ~LoginEmailKnown) => acctLast.status = StatusNotFound
        /\ (LoginBodyValid /\ LoginEmailKnown /\ ~LoginUserLocal)
               => acctLast.status = StatusNotFound
        /\ (LoginBodyValid /\ LoginUserLocal /\ ~LoginPasswordMatches)
               => acctLast.status = StatusNotFound
        /\ acctLast.status = StatusOK
               => LoginPasswordMatches /\ acctLast.token # NoToken

\* C33: HandleLogin answers 400 for a malformed or invalid request body; 404
\* when the email is unknown, when the password does not match the stored
\* hash and when the account belongs to an external identity provider; and
\* 200 with a non-empty token only when the email belongs to a local user
\* and the password matches
C33_LoginStatuses ==
    /\ C33_NotFoundAndSuccess
    /\ (LoginServed /\ ~LoginBodyValid) => acctLast.status = StatusBadRequest

\* two addresses that differ at most in letter case
SameAddress(a, b) == a = b \/ {a, b} = {"a@x.io", "A@X.io"}

SignupSucceeded == acctLast.op = "signup" /\ acctLast.status = StatusCreated

\* the row a successful signup has stored
SignupRow == acctUsers[ToLower(acctLast.body.Email)]

\* the local accounts whose address and password the last login gave, the
\* address in any letter case
LoginMatches ==
    {e \in DOMAIN acctUsers :
        /\ acctUsers[e].Provider = LocalProvider
        /\ SameAddress(acctLast.body.Email, e)
        /\ CompareHashAndPassword(acctUsers[e].PasswordHash,
                                  acctLast.body.Password)}

\* C34: after a successful signup the stored password hash differs from the
\* plaintext password and verifies against it, and a login with the same
\* email in any letter case and the same password (no fault of the database
\* or of the signing) succeeds with the user's id and a non-empty token
C34_SignupThenLogin ==
    /\ SignupSucceeded =>
           /\ ToLower(acctLast.body.Email) \in DOMAIN acctUsers
           /\ SignupRow.PasswordHash # acctLast.body.Password
           /\ CompareHashAndPassword(SignupRow.PasswordHash,
                                     acctLast.body.Password)
    /\ (LoginServed /\ acctLast.body.parsable /\ acctLast.fault = "none") =>
           \A e \in LoginMatches :
               /\ acctLast.status = StatusOK
               /\ acctLast.ID = acctUsers[e].ID
               /\ acctLast.token # NoToken

\* a login in upper case succeeded for an account signed up with password1
C34_Witness ==
    /\ LoginSucceeded
    /\ acctLast.body.Email = "A@X.io"
    /\ acctLast.body.Password = "password1"
    /\ LoginMatches = {"a@x.io"}

SignupServed == acctLast.op = "signup" /\ acctLast.body.parsable
SignupRefused ==
    acctLast.status = StatusBadRequest /\ acctUsers = acctLast.before

\* the refusals of a signup whose email and passwords are not empty, and the
\* condition of a 201
C35_RefusalsOfNonEmptyFields ==
    SignupServed =>
        /\ (acctLast.body.Email # "" /\ ~ValidAddress(acctLast.body.Email))
               => SignupRefused
        /\ (acctLast.body.Password # "" /\ Len(acctLast.body.Password) < 8)
               => SignupRefused
        /\ acctLast.body.Password # acctLast.body.PasswordRepeat
               => SignupRefused
        /\ (/\ ToLower(acctLast.body.Email) \in DOMAIN acctLast.before
            /\ acctLast.fault = "none") => SignupRefused
        /\ acctLast.status = StatusCreated =>
               /\ ToLower(acctLast.body.Email) \notin DOMAIN acctLast.before
               /\ ToLower(acctLast.body.Email) \in DOMAIN acctUsers
        /\ acctLast.status # StatusCreated => acctUsers = acctLast.before

\* C35: HandleSignup answers 400 and creates no user when the email is not
\* a valid address, when the password is shorter than 8 characters, when
\* password and passwordRepeat differ, or when a user with the lowercased
\* email already exists; it answers 201 only after CreateUser has succeeded
C35_SignupStatuses ==
    /\ C35_RefusalsOfNonEmptyFields
    /\ SignupServed =>
           /\ ~ValidAddress(acctLast.body.Email) => SignupRefused
           /\ Len(acctLast.body.Password) < 8 => SignupRefused

(***************************************************************************)
(* Part IX - claims                                                        *)
(***************************************************************************)
\* C36: every request the signing adapter sends to the CA carries a token
\* minted for that request: no two requests carry the same token, and the
\* long-lived provisioner secret is never sent as the token
C36_FreshOneTimeTokenPerRequest ==
    \A i \in DOMAIN caSent :
        /\ caSent[i].body.ott # provisionerToken
        /\ \A j \in DOMAIN caSent : j # i => caSent[j].body.ott # caSent[i].body.ott

(***************************************************************************)
(* Part X - claims                                                         *)
(***************************************************************************)
AddReturned(g) == tCall[g].op = "add" /\ tCall[g].done
GetReturned(g) == tCall[g].op = "get" /\ tCall[g].done

\* C37: whatever Add and Get calls run concurrently, each name maps to the
\* first tool registered under it; an Add of a registered name panics,
\* leaves the registry unchanged and releases the lock; Get returns an error
\* for a name that was never added (and the first tool for one that was)
C37_RegistryKeepsFirstTool ==
    /\ \A n \in DOMAIN tStore : n \in DOMAIN tFirst /\ tStore[n] = tFirst[n]
    /\ \A g \in Callers :
           AddReturned(g) =>
               /\ tCall[g].panicked <=> tCall[g].name \in DOMAIN tCall[g].before
               /\ tCall[g].panicked => tCall[g].after = tCall[g].before
    /\ tWriter # NoCaller => tReaders = {}
    /\ (\A g \in Callers : tPc[g] = "idle") =>
           tWriter = NoCaller /\ tReaders = {}
    /\ \A g \in Callers :
           GetReturned(g) =>
               /\ tCall[g].name \notin DOMAIN tFirst => tCall[g].err
               /\ tCall[g].err <=> tCall[g].name \notin DOMAIN tCall[g].before
               /\ ~tCall[g].err => tCall[g].got = tFirst[tCall[g].name]

\* an Add of another tool under a registered name has panicked and returned,
\* the lock is free, and a Get of a name never added has returned an error
C37_Witness ==
    \E g, h \in Callers :
        /\ AddReturned(g) /\ tCall[g].panicked
        /\ tCall[g].tool # tStore[tCall[g].name]
        /\ GetReturned(h) /\ tCall[h].err
        /\ tCall[h].name \notin DOMAIN tFirst
        /\ tWriter = NoCaller /\ tReaders = {}
=============================================================================
